---------------------------- MODULE Spec2Model ----------------------------
(***************************************************************************)
(* Nox Agent Service: the per-IP rate limiter (rateLimit middleware and    *)
(* its setInterval sweep) and the outbound URL validator (isUrlSafe) of    *)
(* the hardened server version kept in src/README.md.                      *)
(*                                                                         *)
(* Time is in milliseconds, as Date.now() gives it.  The clock is          *)
(* non-decreasing and moves over a grid of sampled instants around the     *)
(* window boundaries.  rateLimit has no await in it, so one request's      *)
(* pass through the middleware is one atomic step of the event loop.       *)
(***************************************************************************)
EXTENDS Integers, Sequences, FiniteSets, TLC

VARIABLES
    now,        \* Date.now()
    rateLimits, \* the Map ip -> {count, windowStart}; DOMAIN = keys present
    sweepDue,   \* when the setInterval callback is due next
    resp,       \* what the last step did: the middleware's answer, and what
                \* the caller's entry and history were before it
    win,        \* history: per ip, the window the calls fall in
    retryAt,    \* history: per ip, the instant a 429 told the client to retry
    prevStart,  \* history: per ip, the latest windowStart the ip ever had
    passed,     \* history: for the identities it is kept for, how many calls
                \* passed at each instant of the last RATE_LIMIT_WINDOW
    urlArg,     \* the string isUrlSafe is called with
    urlCheck,   \* what isUrlSafe returned
    urlPc,      \* "idle", "call" (isUrlSafe about to run) or "done"
    lastIndex,  \* pattern.lastIndex of the patterns of BLOCKED_IP_RANGES
    env,        \* process.env: TESTNET_MODE, DEMO_MODE, CLAWDBOT_WEBHOOK_URL
    jobs,       \* the job store of the v1.3.0 server, in the order of creation
    hitlJobs,   \* the job store of the x402 server, in the order of creation
    calls,      \* outbound calls (fetch, search) awaiting their answer
    ev,         \* what the last step did, in order
    urlTable    \* new URL(u) for the URLs of the requests, computed once

vars == <<now, rateLimits, sweepDue, resp, win, retryAt, prevStart, passed,
          urlArg, urlCheck, urlPc, lastIndex, env, jobs, hitlJobs, calls, ev,
          urlTable>>
urlVars == <<urlArg, urlCheck, urlPc>>
svcVars == <<lastIndex, env, jobs, hitlJobs, calls, ev, urlTable>>
limiterVars == <<now, sweepDue, resp, win, retryAt, prevStart, passed>>

---------------------------------------------------------------------------
(* Program constants *)
RATE_LIMIT_WINDOW == 60000
RATE_LIMIT_MAX == 10
SWEEP_INTERVAL == 60000

(* Bounds of the model *)
MaxWindows == 3     \* the clock runs over windows 0..MaxWindows
MaxOver == 2        \* a stored count is driven at most this far above the max

Offsets == {0, 1}
Instants == {w * RATE_LIMIT_WINDOW + o : w \in 0..MaxWindows, o \in Offsets}

(* Requests as the middleware sees them: the x-forwarded-for header and    *)
(* req.ip, "" standing for an absent (falsy) value.                        *)
Requests ==
    { [xff |-> "a", ip |-> "b"],
      [xff |-> "",  ip |-> "a"],
      [xff |-> "",  ip |-> ""] }

\* const ip = req.headers['x-forwarded-for'] || req.ip || 'unknown'
ClientIp(req) ==
    IF req.xff # "" THEN req.xff
    ELSE IF req.ip # "" THEN req.ip
    ELSE "unknown"

Identities == {ClientIp(r) : r \in Requests}

\* The clients of the pipelines: the requests with a forwarded-for header
Clients == {req \in Requests : req.xff # ""}

\* Mutant of Ceil: Math.floor in place of Math.ceil
Ceil_Floor(n, d) == IF n >= 0 THEN n \div d ELSE -((-n + d - 1) \div d)

\* Math.ceil(n / d) for an integer n and d > 0
Ceil(n, d) == IF n >= 0 THEN (n + d - 1) \div d ELSE -((-n) \div d)

\* retryAfter: Math.ceil((limit.windowStart + RATE_LIMIT_WINDOW - now) / 1000)
RetryAfter(limit, t) == Ceil(limit.windowStart + RATE_LIMIT_WINDOW - t, 1000)

\* Mutant of WindowExpired: any later call starts a new window
WindowExpired_NextInstant(limit, t) == t - limit.windowStart > 0

\* Mutant of WindowExpired: >= in place of >
WindowExpired_AtBoundary(limit, t) == t - limit.windowStart >= RATE_LIMIT_WINDOW

\* now - limit.windowStart > RATE_LIMIT_WINDOW
WindowExpired(limit, t) == t - limit.windowStart > RATE_LIMIT_WINDOW

\* Mutant of OverLimit: >= in place of >
OverLimit_AtMax(count) == count >= RATE_LIMIT_MAX

\* limit.count > RATE_LIMIT_MAX
OverLimit(count) == count > RATE_LIMIT_MAX

\* Mutant of Stale: an entry is deleted once it is one window old
Stale_OneWindow(limit, t) == t - limit.windowStart >= RATE_LIMIT_WINDOW

\* Mutant of Stale: an entry is deleted after three windows
Stale_ThreeWindows(limit, t) == t - limit.windowStart > RATE_LIMIT_WINDOW * 3

\* now - limit.windowStart > RATE_LIMIT_WINDOW * 2
Stale(limit, t) == t - limit.windowStart > RATE_LIMIT_WINDOW * 2

MapSet(m, k, v) == [x \in DOMAIN m \cup {k} |-> IF x = k THEN v ELSE m[x]]
MapDelete(m, ks) == [x \in DOMAIN m \ ks |-> m[x]]

\* Mutant of ResetWindow: the reset counts on from the old count
ResetWindow_CountsOn(limit, t) == [count |-> limit.count + 1, windowStart |-> t]

\* limit.count = 1; limit.windowStart = now
ResetWindow(limit, t) == [count |-> 1, windowStart |-> t]

\* Mutant of RateLimitTable: a reset clears the whole table
RateLimitTable_ResetClearsAll(m, ip, t) ==
    IF ip \notin DOMAIN m
    THEN MapSet(m, ip, [count |-> 1, windowStart |-> t])
    ELSE IF WindowExpired(m[ip], t)
    THEN MapSet(<<>>, ip, [count |-> 1, windowStart |-> t])
    ELSE MapSet(m, ip, [count |-> m[ip].count + 1, windowStart |-> m[ip].windowStart])

\* Mutant of RateLimitTable: the reset forgets limit.windowStart = now
RateLimitTable_ResetKeepsStart(m, ip, t) ==
    IF ip \notin DOMAIN m
    THEN MapSet(m, ip, [count |-> 1, windowStart |-> t])
    ELSE IF WindowExpired(m[ip], t)
    THEN MapSet(m, ip, [count |-> 1, windowStart |-> m[ip].windowStart])
    ELSE MapSet(m, ip, [count |-> m[ip].count + 1, windowStart |-> m[ip].windowStart])

\* Mutant of RateLimitTable: a rejected request is not counted
RateLimitTable_RejectNotCounted(m, ip, t) ==
    IF ip \notin DOMAIN m
    THEN MapSet(m, ip, [count |-> 1, windowStart |-> t])
    ELSE IF WindowExpired(m[ip], t)
    THEN MapSet(m, ip, [count |-> 1, windowStart |-> t])
    ELSE IF OverLimit(m[ip].count + 1)
    THEN m
    ELSE MapSet(m, ip, [count |-> m[ip].count + 1, windowStart |-> m[ip].windowStart])

\* Mutant of RateLimitTable: a new entry starts with count 0
RateLimitTable_CreateZero(m, ip, t) ==
    IF ip \notin DOMAIN m
    THEN MapSet(m, ip, [count |-> 0, windowStart |-> t])
    ELSE IF WindowExpired(m[ip], t)
    THEN MapSet(m, ip, [count |-> 1, windowStart |-> t])
    ELSE MapSet(m, ip, [count |-> m[ip].count + 1, windowStart |-> m[ip].windowStart])

\* Mutant of RateLimitTable: the reset stores the time in seconds
RateLimitTable_ResetInSeconds(m, ip, t) ==
    IF ip \notin DOMAIN m
    THEN MapSet(m, ip, [count |-> 1, windowStart |-> t])
    ELSE IF WindowExpired(m[ip], t)
    THEN MapSet(m, ip, [count |-> 1, windowStart |-> t \div 1000])
    ELSE MapSet(m, ip, [count |-> m[ip].count + 1, windowStart |-> m[ip].windowStart])

\* The table after the sweep ran at time t:
\* for (const [ip, limit] of rateLimits) if (stale) rateLimits.delete(ip)
SweepTable(m, t) == MapDelete(m, {ip \in DOMAIN m : Stale(m[ip], t)})

(* The table after rateLimit(req) ran at time t *)
RateLimitTable(m, ip, t) ==
    IF ip \notin DOMAIN m
    THEN MapSet(m, ip, [count |-> 1, windowStart |-> t])
    ELSE IF WindowExpired(m[ip], t)
    THEN MapSet(m, ip, ResetWindow(m[ip], t))
    ELSE MapSet(m, ip, [count |-> m[ip].count + 1, windowStart |-> m[ip].windowStart])

\* Mutant of RateLimitAnswer: the count is tested before it is incremented
RateLimitAnswer_TestBeforeIncrement(m, ip, t) ==
    IF ip \notin DOMAIN m
    THEN [status |-> "next", retryAfter |-> 0, nexts |-> 1, sent |-> 0]
    ELSE IF WindowExpired(m[ip], t)
    THEN [status |-> "next", retryAfter |-> 0, nexts |-> 1, sent |-> 0]
    ELSE IF OverLimit(m[ip].count)
    THEN [status |-> "429", retryAfter |-> RetryAfter(m[ip], t), nexts |-> 0, sent |-> 1]
    ELSE [status |-> "next", retryAfter |-> 0, nexts |-> 1, sent |-> 0]

\* Mutant of RateLimitAnswer: the 429 branch does not return, next() follows
RateLimitAnswer_NoReturn(m, ip, t) ==
    IF ip \notin DOMAIN m
    THEN [status |-> "next", retryAfter |-> 0, nexts |-> 1, sent |-> 0]
    ELSE IF WindowExpired(m[ip], t)
    THEN [status |-> "next", retryAfter |-> 0, nexts |-> 1, sent |-> 0]
    ELSE IF OverLimit(m[ip].count + 1)
    THEN [status |-> "429", retryAfter |-> RetryAfter(m[ip], t), nexts |-> 1, sent |-> 1]
    ELSE [status |-> "next", retryAfter |-> 0, nexts |-> 1, sent |-> 0]

(* The middleware's answer: next() or res.status(429).json({retryAfter});  *)
(* nexts and sent count the calls of next() and the responses sent          *)
RateLimitAnswer(m, ip, t) ==
    IF ip \notin DOMAIN m
    THEN [status |-> "next", retryAfter |-> 0, nexts |-> 1, sent |-> 0]
    ELSE IF WindowExpired(m[ip], t)
    THEN [status |-> "next", retryAfter |-> 0, nexts |-> 1, sent |-> 0]
    ELSE IF OverLimit(m[ip].count + 1)
    THEN [status |-> "429", retryAfter |-> RetryAfter(m[ip], t), nexts |-> 0, sent |-> 1]
    ELSE [status |-> "next", retryAfter |-> 0, nexts |-> 1, sent |-> 0]

(* History kept beside the program: the window a call falls in, counted    *)
(* from the first call up to RATE_LIMIT_WINDOW later, told by time alone.  *)
NoWin == [start |-> -1, calls |-> 0, allowed |-> 0]

WinAfter(w, t, status) ==
    LET a == IF status = "next" THEN 1 ELSE 0
    IN  IF w.start < 0 \/ t - w.start > RATE_LIMIT_WINDOW
        THEN [start |-> t, calls |-> 1, allowed |-> a]
        ELSE [start |-> w.start, calls |-> w.calls + 1, allowed |-> w.allowed + a]

(* History kept beside the program: the calls that passed, by instant.  A  *)
(* log maps the instants at most RATE_LIMIT_WINDOW back to the number of   *)
(* calls that passed then; older instants are forgotten.                   *)
NoLog == <<>>

Recent(log, t) == [x \in {y \in DOMAIN log : t - y <= RATE_LIMIT_WINDOW} |-> log[x]]

LogAfter(log, t, status) ==
    IF status # "next" THEN Recent(log, t)
    ELSE [x \in DOMAIN Recent(log, t) \cup {t} |->
             IF x \in DOMAIN log THEN log[x] + (IF x = t THEN 1 ELSE 0) ELSE 1]

RECURSIVE SumOver(_, _)
SumOver(log, xs) ==
    IF xs = {} THEN 0
    ELSE LET x == CHOOSE y \in xs : TRUE
         IN  log[x] + SumOver(log, xs \ {x})

\* The calls of the log that passed in the interval [t - RATE_LIMIT_WINDOW, t]
PassedIn(log, t) == SumOver(log, {x \in DOMAIN log : x <= t /\ t - x <= RATE_LIMIT_WINDOW})

---------------------------------------------------------------------------
(* URL validation.  A string is a sequence of one-character strings.  The  *)
(* parser is the WHATWG URL parser behind `new URL(s)` (no base URL), for  *)
(* input over the characters of UrlChars below: ASCII letters, digits and   *)
(* . - : / \ @ [ ] ? # and the space; the scheme "file" (its own parser    *)
(* states) and percent-escapes are outside the modelled input.             *)

UpperChars == <<"A","B","C","D","E","F","G","H","I","J","K","L","M",
                "N","O","P","Q","R","S","T","U","V","W","X","Y","Z">>
LowerChars == <<"a","b","c","d","e","f","g","h","i","j","k","l","m",
                "n","o","p","q","r","s","t","u","v","w","x","y","z">>
DigitChars == <<"0","1","2","3","4","5","6","7","8","9">>
HexChars == <<"0","1","2","3","4","5","6","7","8","9","a","b","c","d","e","f">>

Range(s) == {s[i] : i \in 1..Len(s)}
IndexIn(s, c) == CHOOSE i \in 1..Len(s) : s[i] = c

\* String.prototype.toLowerCase on ASCII
Lower(c) == IF c \in Range(UpperChars) THEN LowerChars[IndexIn(UpperChars, c)] ELSE c
ToLowerCase(s) == [i \in 1..Len(s) |-> Lower(s[i])]

IsAlpha(c) == c \in Range(UpperChars) \cup Range(LowerChars)
IsDigit(c) == c \in Range(DigitChars)
IsHexDigit(c) == Lower(c) \in Range(HexChars)
HexVal(c) == IndexIn(HexChars, Lower(c)) - 1

Drop(s, n) == SubSeq(s, n + 1, Len(s))
Take(s, n) == SubSeq(s, 1, n)

\* String.prototype.startsWith / endsWith / includes
StartsWith(s, p) == Len(s) >= Len(p) /\ Take(s, Len(p)) = p
EndsWith(s, p) == Len(s) >= Len(p) /\ Drop(s, Len(s) - Len(p)) = p
Includes(s, p) == \E i \in 0..(Len(s) - Len(p)) : SubSeq(s, i + 1, i + Len(p)) = p

\* The index of the first character of s that is in cs, Len(s) + 1 if none
FirstOf(s, cs) ==
    IF \E i \in 1..Len(s) : s[i] \in cs
    THEN CHOOSE i \in 1..Len(s) : s[i] \in cs /\ \A j \in 1..(i - 1) : s[j] \notin cs
    ELSE Len(s) + 1

\* The index of the last character of s that is in cs, 0 if none
LastOf(s, cs) ==
    IF \E i \in 1..Len(s) : s[i] \in cs
    THEN CHOOSE i \in 1..Len(s) : s[i] \in cs /\ \A j \in (i + 1)..Len(s) : s[j] \notin cs
    ELSE 0

\* s split at every occurrence of the character c
RECURSIVE Split(_, _)
Split(s, c) ==
    LET i == FirstOf(s, {c})
    IN  IF i > Len(s) THEN <<s>> ELSE <<Take(s, i - 1)>> \o Split(Drop(s, i), c)

\* URL parser: leading and trailing C0 control or space are removed
RECURSIVE TrimSpaces(_)
TrimSpaces(s) ==
    IF s # <<>> /\ Head(s) = " " THEN TrimSpaces(Tail(s))
    ELSE IF s # <<>> /\ s[Len(s)] = " " THEN TrimSpaces(Take(s, Len(s) - 1))
    ELSE s

(* Numbers of the IPv4 parser are below 2^32 or "too big": kept as two     *)
(* 16-bit halves, hi saturating at 65536.                                  *)
Num(h, l) == [hi |-> h, lo |-> l]

RECURSIVE ParseDigits(_, _, _)
ParseDigits(s, radix, acc) ==
    IF s = <<>> THEN acc
    ELSE LET l == acc.lo * radix + HexVal(Head(s))
             h == acc.hi * radix + (l \div 65536)
         IN  ParseDigits(Tail(s), radix, Num(IF h > 65536 THEN 65536 ELSE h, l % 65536))

\* IPv4 number parser: [ok, n]; 0x / 0X is hexadecimal, a leading 0 is octal
ParseIPv4Number(s) ==
    LET hex == Len(s) >= 2 /\ s[1] = "0" /\ Lower(s[2]) = "x"
        oct == ~hex /\ Len(s) >= 2 /\ s[1] = "0"
        body == IF hex THEN Drop(s, 2) ELSE IF oct THEN Drop(s, 1) ELSE s
        radix == IF hex THEN 16 ELSE IF oct THEN 8 ELSE 10
        valid == /\ s # <<>>
                 /\ \A i \in 1..Len(body) :
                       IsHexDigit(body[i]) /\ HexVal(body[i]) < radix
    IN  IF valid THEN [ok |-> TRUE, n |-> ParseDigits(body, radix, Num(0, 0))]
        ELSE [ok |-> FALSE, n |-> Num(0, 0)]

\* The parts of a host split at ".", a last empty part removed
DotParts(s) ==
    LET p == Split(s, ".")
    IN  IF Len(p) > 1 /\ p[Len(p)] = <<>> THEN Take(p, Len(p) - 1) ELSE p

\* Host parser: the ends-in-a-number checker
EndsInANumber(s) ==
    LET p == DotParts(s)
        last == p[Len(p)]
    IN  /\ last # <<>>
        /\ \/ \A i \in 1..Len(last) : IsDigit(last[i])
           \/ ParseIPv4Number(last).ok

\* Number.prototype.toString() of 0..255
DecStr(n) ==
    LET d(k) == DigitChars[k + 1]
    IN  IF n >= 100 THEN <<d(n \div 100), d((n \div 10) % 10), d(n % 10)>>
        ELSE IF n >= 10 THEN <<d(n \div 10), d(n % 10)>>
        ELSE <<d(n)>>

\* IPv4 parser and serializer: [ok, host], host in dotted decimal
ParseIPv4(s) ==
    LET p == DotParts(s)
        k == Len(p)
        nums == [i \in 1..k |-> ParseIPv4Number(p[i])]
        last == nums[k].n
        bytes == <<last.hi \div 256, last.hi % 256, last.lo \div 256, last.lo % 256>>
        good == /\ k <= 4
                /\ \A i \in 1..k : nums[i].ok
                /\ \A i \in 1..(k - 1) : nums[i].n.hi = 0 /\ nums[i].n.lo <= 255
                /\ last.hi < 65536
                /\ \A j \in 1..(k - 1) : bytes[j] = 0
        octet(j) == IF j < k THEN nums[j].n.lo ELSE bytes[j]
    IN  IF good
        THEN [ok |-> TRUE,
              host |-> DecStr(octet(1)) \o <<".">> \o DecStr(octet(2)) \o <<".">>
                       \o DecStr(octet(3)) \o <<".">> \o DecStr(octet(4))]
        ELSE [ok |-> FALSE, host |-> <<>>]

\* A 16-bit piece in lower-case hexadecimal without leading zeros
HexStr(n) ==
    LET d == <<n \div 4096, (n \div 256) % 16, (n \div 16) % 16, n % 16>>
        f == IF d[1] # 0 THEN 1 ELSE IF d[2] # 0 THEN 2 ELSE IF d[3] # 0 THEN 3 ELSE 4
    IN  [i \in 1..(5 - f) |-> HexChars[d[f + i - 1] + 1]]

\* IPv6 parser: one group of 1 to 4 hexadecimal digits
IsHexGroup(g) == Len(g) \in 1..4 /\ \A i \in 1..Len(g) : IsHexDigit(g[i])

\* IPv6 parser: a trailing dotted quad, decimal, no leading zeros, each <= 255
IsQuad(g) ==
    LET p == Split(g, ".")
    IN  /\ Len(p) = 4
        /\ \A i \in 1..4 :
              /\ Len(p[i]) \in 1..3
              /\ \A j \in 1..Len(p[i]) : IsDigit(p[i][j])
              /\ (Len(p[i]) > 1 => p[i][1] # "0")
              /\ ParseDigits(p[i], 10, Num(0, 0)).lo <= 255

QuadPieces(g) ==
    LET p == Split(g, ".")
        b == [i \in 1..4 |-> ParseDigits(p[i], 10, Num(0, 0)).lo]
    IN  <<b[1] * 256 + b[2], b[3] * 256 + b[4]>>

\* The pieces of a colon-separated run of groups; the last may be a quad
RECURSIVE GroupPieces(_, _)
GroupPieces(gs, quadOk) ==
    IF gs = <<>> THEN [ok |-> TRUE, p |-> <<>>]
    ELSE IF Len(gs) = 1 /\ quadOk /\ IsQuad(gs[1]) THEN [ok |-> TRUE, p |-> QuadPieces(gs[1])]
    ELSE IF ~IsHexGroup(Head(gs)) THEN [ok |-> FALSE, p |-> <<>>]
    ELSE LET r == GroupPieces(Tail(gs), quadOk)
         IN  [ok |-> r.ok, p |-> <<ParseDigits(Head(gs), 16, Num(0, 0)).lo>> \o r.p]

Groups(s) == IF s = <<>> THEN <<>> ELSE Split(s, ":")
Zeros(n) == [i \in 1..n |-> 0]

\* IPv6 parser: [ok, p], p the eight 16-bit pieces
ParseIPv6(s) ==
    LET dbl == {i \in 1..(Len(s) - 1) : s[i] = ":" /\ s[i + 1] = ":"}
        bad == [ok |-> FALSE, p |-> <<>>]
    IN  IF Cardinality(dbl) > 1 THEN bad
        ELSE IF dbl = {}
        THEN LET r == GroupPieces(Groups(s), TRUE)
             IN  IF r.ok /\ Len(r.p) = 8 THEN r ELSE bad
        ELSE LET at == CHOOSE i \in dbl : TRUE
                 l == GroupPieces(Groups(Take(s, at - 1)), FALSE)
                 r == GroupPieces(Groups(Drop(s, at + 1)), TRUE)
             IN  IF l.ok /\ r.ok /\ Len(l.p) + Len(r.p) <= 7
                 THEN [ok |-> TRUE, p |-> l.p \o Zeros(8 - Len(l.p) - Len(r.p)) \o r.p]
                 ELSE bad

\* The number of zero pieces in a row from piece i on
RECURSIVE ZeroRun(_, _)
ZeroRun(p, i) == IF i > Len(p) \/ p[i] # 0 THEN 0 ELSE 1 + ZeroRun(p, i + 1)

RECURSIVE SerializePieces(_, _, _, _)
SerializePieces(p, i, at, run) ==
    IF i > 8 THEN <<>>
    ELSE IF i = at
    THEN (IF i = 1 THEN <<":", ":">> ELSE <<":">>) \o SerializePieces(p, i + run, at, run)
    ELSE HexStr(p[i]) \o (IF i # 8 THEN <<":">> ELSE <<>>) \o SerializePieces(p, i + 1, at, run)

\* IPv6 serializer: the first longest run of two or more zero pieces is "::"
SerializeIPv6(p) ==
    LET longest == CHOOSE n \in 0..8 :
                      /\ \E i \in 1..8 : ZeroRun(p, i) = n
                      /\ \A i \in 1..8 : ZeroRun(p, i) <= n
        at == IF longest < 2 THEN 0
              ELSE CHOOSE i \in 1..8 :
                      ZeroRun(p, i) = longest /\ \A j \in 1..(i - 1) : ZeroRun(p, j) < longest
    IN  SerializePieces(p, 1, at, longest)

\* Forbidden host code points within the modelled characters
ForbiddenHostChars == {" ", "#", "/", ":", "?", "@", "[", "\\", "]"}

\* Host parser: [ok, host], host as url.hostname gives it
ParseHost(s, special) ==
    LET bad == [ok |-> FALSE, host |-> <<>>]
    IN  IF s # <<>> /\ s[1] = "["
        THEN IF s[Len(s)] # "]" THEN bad
             ELSE LET a == ParseIPv6(SubSeq(s, 2, Len(s) - 1))
                  IN  IF a.ok THEN [ok |-> TRUE, host |-> <<"[">> \o SerializeIPv6(a.p) \o <<"]">>]
                      ELSE bad
        ELSE IF \E i \in 1..Len(s) : s[i] \in ForbiddenHostChars THEN bad
        ELSE IF ~special THEN [ok |-> TRUE, host |-> s]
        ELSE LET d == ToLowerCase(s)
             IN  IF d = <<>> THEN bad
                 ELSE IF EndsInANumber(d) THEN ParseIPv4(d)
                 ELSE [ok |-> TRUE, host |-> d]

SpecialSchemes ==
    { <<"h","t","t","p">>, <<"h","t","t","p","s">>, <<"f","t","p">>,
      <<"w","s">>, <<"w","s","s">> }

IsSchemeChar(c) == IsAlpha(c) \/ IsDigit(c) \/ c \in {"+", "-", "."}

RECURSIVE SkipSlashes(_)
SkipSlashes(s) ==
    IF s # <<>> /\ Head(s) \in {"/", "\\"} THEN SkipSlashes(Tail(s)) ELSE s

\* Host state: the index of the first ":" outside brackets, Len(s) + 1 if none
RECURSIVE PortColon(_, _, _)
PortColon(s, i, inside) ==
    IF i > Len(s) THEN i
    ELSE IF s[i] = ":" /\ ~inside THEN i
    ELSE PortColon(s, i + 1, IF s[i] = "[" THEN TRUE ELSE IF s[i] = "]" THEN FALSE ELSE inside)

\* Port state: digits only, at most 65535
PortOk(s) ==
    /\ \A i \in 1..Len(s) : IsDigit(s[i])
    /\ LET n == ParseDigits(s, 10, Num(0, 0)) IN n.hi = 0

\* Authority, host and port states: [ok, host]
ParseAuthority(s, special) ==
    LET stop == FirstOf(s, IF special THEN {"/", "?", "#", "\\"} ELSE {"/", "?", "#"})
        auth == Take(s, stop - 1)
        at == LastOf(auth, {"@"})
        hp == Drop(auth, at)
        colon == PortColon(hp, 1, FALSE)
        host == Take(hp, colon - 1)
        port == Drop(hp, colon)
        bad == [ok |-> FALSE, host |-> <<>>]
    IN  IF at > 0 /\ hp = <<>> THEN bad
        ELSE IF colon <= Len(hp) /\ host = <<>> THEN bad
        ELSE IF special /\ host = <<>> THEN bad
        ELSE IF ~PortOk(port) THEN bad
        ELSE ParseHost(host, special)

\* new URL(urlString): [ok, protocol, hostname]; ok = FALSE is the TypeError
ParseURL(urlString) ==
    LET s == TrimSpaces(urlString)
        k == FirstOf(s, {c \in Range(s) : ~IsSchemeChar(c)})
        scheme == ToLowerCase(Take(s, k - 1))
        rest == Drop(s, k)
        special == scheme \in SpecialSchemes
        bad == [ok |-> FALSE, protocol |-> <<>>, hostname |-> <<>>]
    IN  IF s = <<>> \/ ~IsAlpha(s[1]) \/ k > Len(s) \/ s[k] # ":" THEN bad
        ELSE IF special \/ StartsWith(rest, <<"/", "/">>)
        THEN LET a == ParseAuthority(IF special THEN SkipSlashes(rest) ELSE Drop(rest, 2), special)
             IN  IF a.ok THEN [ok |-> TRUE, protocol |-> scheme \o <<":">>, hostname |-> a.host]
                 ELSE bad
        ELSE [ok |-> TRUE, protocol |-> scheme \o <<":">>, hostname |-> <<>>]

\* const BLOCKED_HOSTS = [...]
BLOCKED_HOSTS ==
    { <<"l","o","c","a","l","h","o","s","t">>,
      <<"1","2","7",".","0",".","0",".","1">>,
      <<"0",".","0",".","0",".","0">>,
      <<":",":","1">>,
      <<"m","e","t","a","d","a","t","a",".","g","o","o","g","l","e",".","i","n","t","e","r","n","a","l">>,
      <<"1","6","9",".","2","5","4",".","1","6","9",".","2","5","4">> }

\* /^172\.(1[6-9]|2[0-9]|3[0-1])\./
Matches172(h) ==
    /\ Len(h) >= 7
    /\ Take(h, 4) = <<"1","7","2",".">>
    /\ \/ h[5] = "1" /\ h[6] \in {"6","7","8","9"}
       \/ h[5] = "2" /\ IsDigit(h[6])
       \/ h[5] = "3" /\ h[6] \in {"0","1"}
    /\ h[7] = "."

\* Mutant of PatternFlags: every pattern is global, /^.../g
PatternFlags_Global == [n \in 1..7 |-> {"g"}]

\* The flags of the seven patterns of BLOCKED_IP_RANGES
PatternFlags == << {}, {}, {}, {}, {}, {"i"}, {"i"} >>

\* Whether pattern n matches h from its first character on
PatternMatch(n, h) ==
    LET x == IF "i" \in PatternFlags[n] THEN ToLowerCase(h) ELSE h
    IN  CASE n = 1 -> StartsWith(x, <<"1","2","7",".">>)
          [] n = 2 -> StartsWith(x, <<"1","0",".">>)
          [] n = 3 -> Matches172(x)
          [] n = 4 -> StartsWith(x, <<"1","9","2",".","1","6","8",".">>)
          [] n = 5 -> StartsWith(x, <<"1","6","9",".","2","5","4",".">>)
          [] n = 6 -> StartsWith(x, <<"f","c","0","0",":">>)
          [] n = 7 -> StartsWith(x, <<"f","e","8","0",":">>)

\* The number of characters a match of pattern n takes
MatchLength == << 4, 3, 7, 8, 8, 5, 5 >>

\* pattern.lastIndex of the seven patterns after construction
NoLastIndex == [n \in 1..7 |-> 0]

(* pattern.test(hostname) with pattern.lastIndex = li: whether it matched   *)
(* and the lastIndex it leaves.  Only a global (or sticky) pattern starts   *)
(* at lastIndex and writes it; every pattern is anchored with ^, so a start *)
(* behind the first character finds nothing.                                *)
RegExpTest(n, h, li) ==
    LET global == "g" \in PatternFlags[n]
        start == IF global THEN li ELSE 0
        found == start = 0 /\ PatternMatch(n, h)
    IN  [found |-> found,
         lastIndex |-> IF ~global THEN li
                       ELSE IF found THEN MatchLength[n] ELSE 0]

(* for (const pattern of BLOCKED_IP_RANGES) if (pattern.test(hostname)) ... *)
(* from pattern n on: whether one matched, and the lastIndex of all         *)
RECURSIVE TestRanges(_, _, _)
TestRanges(n, h, li) ==
    IF n > Len(PatternFlags) THEN [found |-> FALSE, lastIndex |-> li]
    ELSE LET r == RegExpTest(n, h, li[n])
             li2 == [li EXCEPT ![n] = r.lastIndex]
         IN  IF r.found THEN [found |-> TRUE, lastIndex |-> li2]
             ELSE TestRanges(n + 1, h, li2)

\* BLOCKED_IP_RANGES: some pattern.test(hostname), the patterns as constructed
MatchesBlockedRange(h) == TestRanges(1, h, NoLastIndex).found

\* Mutant of InternalName: the .internal suffix is not tested
InternalName_NoInternalSuffix(h) ==
    \/ EndsWith(h, <<".","l","o","c","a","l">>)
    \/ Includes(h, <<"m","e","t","a","d","a","t","a">>)

\* hostname.endsWith('.internal') || hostname.endsWith('.local') || hostname.includes('metadata')
InternalName(h) ==
    \/ EndsWith(h, <<".","i","n","t","e","r","n","a","l">>)
    \/ EndsWith(h, <<".","l","o","c","a","l">>)
    \/ Includes(h, <<"m","e","t","a","d","a","t","a">>)

AllowedProtocols == { <<"h","t","t","p",":">>, <<"h","t","t","p","s",":">> }

Safe == [safe |-> TRUE, reason |-> "undefined"]
Unsafe(reason) == [safe |-> FALSE, reason |-> reason]

\* The characters of s as one string
RECURSIVE Join(_)
Join(s) == IF s = <<>> THEN "" ELSE s[1] \o Join(Tail(s))

\* Mutant of CheckParsed: the reason of a pattern match names the host
CheckParsed_ReasonNamesHost(url) ==
    LET hostname == ToLowerCase(url.hostname)
    IN  IF ~url.ok THEN Unsafe("Invalid URL")
        ELSE IF url.protocol \notin AllowedProtocols THEN Unsafe("Only HTTP/HTTPS allowed")
        ELSE IF hostname \in BLOCKED_HOSTS THEN Unsafe("Blocked host")
        ELSE IF MatchesBlockedRange(hostname)
             THEN Unsafe("Internal IP not allowed: " \o Join(hostname))
        ELSE IF InternalName(hostname) THEN Unsafe("Internal hostname not allowed")
        ELSE Safe

\* Mutant of CheckParsed: the TypeError of new URL is not caught
CheckParsed_NoCatch(url) ==
    LET hostname == ToLowerCase(url.hostname)
    IN  IF ~url.ok THEN [threw |-> "TypeError"]
        ELSE IF url.protocol \notin AllowedProtocols THEN Unsafe("Only HTTP/HTTPS allowed")
        ELSE IF hostname \in BLOCKED_HOSTS THEN Unsafe("Blocked host")
        ELSE IF MatchesBlockedRange(hostname) THEN Unsafe("Internal IP not allowed")
        ELSE IF InternalName(hostname) THEN Unsafe("Internal hostname not allowed")
        ELSE Safe

\* Mutant of CheckParsed: the address patterns are tested before the host list
CheckParsed_RangesFirst(url) ==
    LET hostname == ToLowerCase(url.hostname)
    IN  IF ~url.ok THEN Unsafe("Invalid URL")
        ELSE IF url.protocol \notin AllowedProtocols THEN Unsafe("Only HTTP/HTTPS allowed")
        ELSE IF MatchesBlockedRange(hostname) THEN Unsafe("Internal IP not allowed")
        ELSE IF hostname \in BLOCKED_HOSTS THEN Unsafe("Blocked host")
        ELSE IF InternalName(hostname) THEN Unsafe("Internal hostname not allowed")
        ELSE Safe

(* isUrlSafe with the patterns in the state li the calls before left them *)
(* in: the answer and the lastIndex of the patterns after the call         *)
CheckParsedAt(url, li) ==
    LET hostname == ToLowerCase(url.hostname)
    IN  IF ~url.ok THEN [answer |-> Unsafe("Invalid URL"), lastIndex |-> li]
        ELSE IF url.protocol \notin AllowedProtocols
             THEN [answer |-> Unsafe("Only HTTP/HTTPS allowed"), lastIndex |-> li]
        ELSE IF hostname \in BLOCKED_HOSTS
             THEN [answer |-> Unsafe("Blocked host"), lastIndex |-> li]
        ELSE \* the loop over the patterns runs once
             CHOOSE r \in
               { IF t.found
                 THEN [answer |-> Unsafe("Internal IP not allowed"), lastIndex |-> t.lastIndex]
                 ELSE IF InternalName(hostname)
                 THEN [answer |-> Unsafe("Internal hostname not allowed"), lastIndex |-> t.lastIndex]
                 ELSE [answer |-> Safe, lastIndex |-> t.lastIndex]
                 : t \in {TestRanges(1, hostname, li)} } : TRUE

(* isUrlSafe from `const url = new URL(urlString)` on, ~url.ok being the  *)
(* catch, with the patterns as they were constructed                       *)
CheckParsed(url) == CheckParsedAt(url, NoLastIndex).answer

(* function isUrlSafe(urlString): the URL is parsed once, then checked *)
isUrlSafe(urlString) ==
    CHOOSE r \in {CheckParsed(url) : url \in {ParseURL(urlString)}} : TRUE

(* The inputs: scheme, slashes, host and tail put together, and a few whole strings *)
UrlSchemes ==
    { <<"h","t","t","p",":">>,
      <<"h","t","t","p","s",":">>,
      <<"H","T","T","P",":">>,
      <<"f","t","p",":">>,
      <<"g","o","p","h","e","r",":">>,
      <<>> }

UrlSlashes ==
    { <<"/","/">>,
      <<>> }

UrlHosts ==
    { <<"l","o","c","a","l","h","o","s","t">>,
      <<"L","O","C","A","L","H","O","S","T">>,
      <<"l","o","c","a","l","h","o","s","t",".">>,
      <<"1","2","7",".","0",".","0",".","1">>,
      <<"1","2","7",".","1">>,
      <<"0","x","7","f",".","0",".","0",".","1">>,
      <<"2","1","3","0","7","0","6","4","3","3">>,
      <<"0",".","0",".","0",".","0">>,
      <<"1","0",".","0",".","0",".","1">>,
      <<"1","7","2",".","1","6",".","0",".","1">>,
      <<"1","7","2",".","1","5",".","0",".","1">>,
      <<"1","7","2",".","3","2",".","0",".","1">>,
      <<"1","9","2",".","1","6","8",".","1",".","1">>,
      <<"1","6","9",".","2","5","4",".","1","6","9",".","2","5","4">>,
      <<"1","6","9",".","2","5","4",".","1",".","1">>,
      <<"e","x","a","m","p","l","e",".","c","o","m">>,
      <<"s","e","r","v","i","c","e",".","i","n","t","e","r","n","a","l">>,
      <<"p","r","i","n","t","e","r",".","l","o","c","a","l">>,
      <<"m","e","t","a","d","a","t","a",".","g","o","o","g","l","e",".","i","n","t","e","r","n","a","l">>,
      <<"m","y","-","m","e","t","a","d","a","t","a",".","e","x","a","m","p","l","e",".","c","o","m">>,
      <<"1","0",".","m","e","t","a","d","a","t","a",".","l","o","c","a","l">>,
      <<"[",":",":","1","]">>,
      <<"[","f","e","8","0",":",":","1","]">>,
      <<"[","F","C","0","0",":",":","1","]">>,
      <<"[","f","c","0","0",":",":","1","]">>,
      <<"[",":",":","f","f","f","f",":","1","2","7",".","0",".","0",".","1","]">>,
      <<"1",".","2",".","3",".","4",".","5">>,
      <<"e","x","a"," ","m","p","l","e",".","c","o","m">>,
      <<>>,
      <<"u","s","e","r","@","1","2","7",".","0",".","0",".","1">>,
      <<"[",":",":","1">> }

UrlTails ==
    { <<>>,
      <<"/">>,
      <<"/","l","a","t","e","s","t","/","m","e","t","a","-","d","a","t","a">>,
      <<":","8","0","/","x">>,
      <<":","9","9","9","9","9","/">> }

UrlWhole ==
    { <<"n","o","t"," ","a"," ","u","r","l">>,
      <<" ","h","t","t","p",":","/","/","e","x","a","m","p","l","e",".","c","o","m","/"," ">>,
      <<"m","a","i","l","t","o",":","a","@","b">>,
      <<"h","t","t","p","s",":","/","/","e","x","a","m","p","l","e",".","c","o","m","/","p","a","g","e">>,
      <<"h","t","t","p",":","\\","\\","1","0",".","0",".","0",".","1","\\","x">> }

UrlInputs ==
    UrlWhole \cup
    {s \o l \o h \o t : s \in UrlSchemes, l \in UrlSlashes, h \in UrlHosts, t \in UrlTails}

\* The url field of a scrape request; <<>> is an absent (falsy) url
ScrapeUrls ==
    { <<"h","t","t","p",":","/","/","1","6","9",".","2","5","4",".","1","6","9",".","2","5","4","/","l","a","t","e","s","t","/","m","e","t","a","-","d","a","t","a">>,
      <<"h","t","t","p","s",":","/","/","e","x","a","m","p","l","e",".","c","o","m","/","p","a","g","e">>,
      <<"h","t","t","p",":","/","/","1","0",".","0",".","0",".","1","/">>,
      <<"n","o","t"," ","a"," ","u","r","l">>,
      <<>> }

NotChecked == [safe |-> FALSE, reason |-> "not checked"]

\* process.env with none of the variables set
NoEnv ==
    [TESTNET_MODE |-> "undefined", DEMO_MODE |-> "undefined",
     CLAWDBOT_WEBHOOK_URL |-> "undefined", ADMIN_KEY |-> "undefined"]

---------------------------------------------------------------------------
(* The service: requests through the rate limiter, the sweep, the clock *)

NoEntry == [count |-> 0, windowStart |-> -1]

\* What a step that is not a request leaves in resp
Quiet(op) ==
    [op |-> op, ip |-> "", status |-> "none", retryAfter |-> 0,
     nexts |-> 0, sent |-> 0,
     before |-> NoEntry, retryDue |-> -1, seen |-> -1]

Init ==
    /\ now = 0
    /\ rateLimits = <<>>
    /\ sweepDue = SWEEP_INTERVAL
    /\ resp = Quiet("start")
    /\ win = [i \in Identities |-> NoWin]
    /\ retryAt = [i \in Identities |-> -1]
    /\ prevStart = [i \in Identities |-> -1]
    /\ passed = <<>>
    /\ urlArg = <<>>
    /\ urlCheck = NotChecked
    /\ urlPc = "idle"
    /\ lastIndex = NoLastIndex
    /\ env = NoEnv
    /\ jobs = <<>>
    /\ hitlJobs = <<>>
    /\ calls = <<>>
    /\ ev = <<>>
    /\ urlTable = [u \in ScrapeUrls |-> ParseURL(u)]

(* function rateLimit(req, res, next) *)
RateLimit(req) ==
    LET ip == ClientIp(req)
        ans == RateLimitAnswer(rateLimits, ip, now)
        tab == RateLimitTable(rateLimits, ip, now)
    IN  /\ tab[ip].count <= RATE_LIMIT_MAX + MaxOver
        /\ rateLimits' = tab
        /\ resp' = [op |-> "rateLimit", ip |-> ip,
                    status |-> ans.status, retryAfter |-> ans.retryAfter,
                    nexts |-> ans.nexts, sent |-> ans.sent,
                    before |-> IF ip \in DOMAIN rateLimits THEN rateLimits[ip] ELSE NoEntry,
                    retryDue |-> retryAt[ip], seen |-> prevStart[ip]]
        /\ win' = [win EXCEPT ![ip] = WinAfter(@, now, ans.status)]
        /\ retryAt' = [retryAt EXCEPT ![ip] =
                          IF ans.status = "429" THEN now + ans.retryAfter * 1000 ELSE -1]
        /\ prevStart' = [prevStart EXCEPT ![ip] =
                          IF tab[ip].windowStart > @ THEN tab[ip].windowStart ELSE @]
        /\ passed' = [i \in DOMAIN passed |->
                          IF i = ip THEN LogAfter(passed[i], now, ans.status) ELSE passed[i]]
        /\ UNCHANGED <<now, sweepDue, urlVars, svcVars>>

\* Mutant of Sweep: the loop stops after its first delete
Sweep_StopsAfterFirstDelete ==
    /\ now >= sweepDue
    /\ LET stale == {ip \in DOMAIN rateLimits : Stale(rateLimits[ip], now)}
       IN  rateLimits' = MapDelete(rateLimits,
                             IF stale = {} THEN {} ELSE {CHOOSE ip \in stale : TRUE})
    /\ sweepDue' = now + SWEEP_INTERVAL
    /\ resp' = Quiet("sweep")
    /\ UNCHANGED <<now, win, retryAt, prevStart, passed, urlVars, svcVars>>

(* setInterval(() => { ... rateLimits.delete(ip) ... }, 60000) *)
Sweep ==
    /\ now >= sweepDue
    /\ rateLimits' = SweepTable(rateLimits, now)
    /\ sweepDue' = now + SWEEP_INTERVAL
    /\ resp' = Quiet("sweep")
    /\ UNCHANGED <<now, win, retryAt, prevStart, passed, urlVars, svcVars>>

(* The clock moves on to a later instant.  The interval timer is taken to  *)
(* fire on time: the clock does not pass sweepDue before the sweep ran, so *)
(* sweeps run at 60000, 120000, ... after module load; requests of the     *)
(* same millisecond run before or after the sweep.                         *)
Tick ==
    /\ now < sweepDue
    /\ \E t \in Instants :
          /\ t > now
          /\ t <= sweepDue
          /\ now' = t
          /\ passed' = [i \in DOMAIN passed |-> Recent(passed[i], t)]
    /\ resp' = Quiet("tick")
    /\ UNCHANGED <<rateLimits, sweepDue, win, retryAt, prevStart, urlVars, svcVars>>

Next ==
    \/ \E req \in Requests : RateLimit(req)
    \/ Sweep
    \/ Tick

Spec == Init /\ [][Next]_vars

\* The limiter with the log of passed calls kept for the clients that send a
\* forwarded-for header
InitBurst ==
    /\ now = 0
    /\ rateLimits = <<>>
    /\ sweepDue = SWEEP_INTERVAL
    /\ resp = Quiet("start")
    /\ win = [i \in Identities |-> NoWin]
    /\ retryAt = [i \in Identities |-> -1]
    /\ prevStart = [i \in Identities |-> -1]
    /\ passed = [i \in {ClientIp(req) : req \in Clients} |-> NoLog]
    /\ urlArg = <<>>
    /\ urlCheck = NotChecked
    /\ urlPc = "idle"
    /\ lastIndex = NoLastIndex
    /\ env = NoEnv
    /\ jobs = <<>>
    /\ hitlJobs = <<>>
    /\ calls = <<>>
    /\ ev = <<>>
    /\ urlTable = [u \in ScrapeUrls |-> ParseURL(u)]

NextBurst ==
    \/ \E req \in Clients : RateLimit(req)
    \/ Sweep
    \/ Tick

SpecBurst == InitBurst /\ [][NextBurst]_vars

---------------------------------------------------------------------------
(* The validator on its own: isUrlSafe called with any of the inputs *)
InitUrl ==
    /\ now = 0
    /\ rateLimits = <<>>
    /\ sweepDue = SWEEP_INTERVAL
    /\ resp = Quiet("start")
    /\ win = [i \in Identities |-> NoWin]
    /\ retryAt = [i \in Identities |-> -1]
    /\ prevStart = [i \in Identities |-> -1]
    /\ passed = <<>>
    /\ urlArg \in UrlInputs
    /\ urlCheck = NotChecked
    /\ urlPc = "call"
    /\ lastIndex = NoLastIndex
    /\ env = NoEnv
    /\ jobs = <<>>
    /\ hitlJobs = <<>>
    /\ calls = <<>>
    /\ ev = <<>>
    /\ urlTable = [u \in ScrapeUrls |-> ParseURL(u)]

\* const urlCheck = isUrlSafe(urlString)
CheckUrl ==
    /\ urlPc = "call"
    /\ urlCheck' = isUrlSafe(urlArg)
    /\ urlPc' = "done"
    /\ UNCHANGED <<urlArg, rateLimits, limiterVars, svcVars>>

SpecUrl == InitUrl /\ [][CheckUrl]_vars

---------------------------------------------------------------------------
(* The request pipelines: the server with the rate limiter and the         *)
(* validator (src/README.md, v1.3.0) and POST /scrape of the x402 server   *)
(* (src/src/index.js, v1.1.0), two programs with a specification each.     *)
(* A step is what the event loop runs without *)
(* interruption: the middlewares and the handler of one request up to the  *)
(* first outbound call it awaits, or the continuation after that call      *)
(* settled.  The clock stands still in this part.                          *)

(* Bounds of the pipelines *)
MaxJobs == 1        \* jobs POST /start_job creates
MaxInFlight == 1    \* outbound calls awaiting their answer
MaxUrls == 2        \* URLs in the urls array of the x402 POST /scrape
MaxHops == 1        \* redirects one fetch follows (fetch itself gives up after 20)

\* An entry of ev; job is the place in the store of the job it is about
\* (0: none)
Ev(e, url, arg) == [e |-> e, url |-> url, arg |-> arg, job |-> 0]
JobEv(e, id, arg) == [e |-> e, url |-> <<>>, arg |-> arg, job |-> id]

\* An outbound call awaited by a handler: job is the job's place in the store
\* (0: none), rest the URLs the x402 fetch loop has still to visit, url the
\* target of its latest request, hops the redirects it followed so far, and
\* deep whether the x402 research handler fetches the results of its search
Call(kind, route, url, job, rest) ==
    [kind |-> kind, route |-> route, url |-> url, job |-> job, rest |-> rest,
     hops |-> 0, deep |-> FALSE]

\* new URL(u) for each of them
Parsed(u) == urlTable[u]

\* The requests to the v1.3.0 server.  kind is the method and path, OPTIONS
\* a CORS preflight, "bad json" a POST whose body express.json refuses;
\* service, url and query are the fields of the body ("" and <<>>: absent;
\* query stands for the task of a hitl job as well), job_id the query
\* parameter of GET /status (0: absent, else a place in the store, or
\* behind its end for an id the store does not hold)
Body(kind, service, url, query) ==
    [kind |-> kind, service |-> service, url |-> url, query |-> query, job_id |-> 0]

StatusBody(id) == [Body("GET /status", "", <<>>, "") EXCEPT !.job_id = id]

Bodies ==
    { Body("OPTIONS", "", <<>>, ""),
      Body("bad json", "", <<>>, ""),
      Body("GET /health", "", <<>>, ""),
      Body("POST /start_job", "no input_data", <<>>, ""),
      Body("POST /start_job", "other", <<>>, "") }
    \cup {Body("POST /scrape", "", u, "") : u \in ScrapeUrls}
    \cup {Body("POST /research", "", <<>>, q) : q \in {"", "q"}}
    \cup {Body("POST /start_job", "scrape", u, "") : u \in ScrapeUrls}
    \cup {Body("POST /start_job", s, <<>>, q) : s \in {"research", "hitl"}, q \in {"", "q"}}

(* createJob / updateJob *)
NewJob(service) ==
    [service |-> service, status |-> "pending", result |-> "null", error |-> "null"]

\* Mutant of UpdateJob: the update leaves the status out
UpdateJob_NoStatus(js, id, status, result, error) ==
    [js EXCEPT ![id] = [service |-> @.service, status |-> @.status,
                        result |-> result, error |-> error]]

UpdateJob(js, id, status, result, error) ==
    [js EXCEPT ![id] = [service |-> @.service, status |-> status,
                        result |-> result, error |-> error]]

(* What a handler did in a step: its events, the patterns' lastIndex and   *)
(* the job store after it, and the outbound calls it now awaits            *)
Did(events, li, js, awaited) ==
    [events |-> events, lastIndex |-> li, jobs |-> js, calls |-> awaited]

(* fetchAndExtract(urlString) up to `await fetch`: isUrlSafe, then the     *)
(* throw of its reason or the fetch.  error is "" when the fetch was issued *)
FetchAndExtract(u, li) ==
    CHOOSE r \in
      { IF c.answer.safe
        THEN [events |-> <<Ev("isUrlSafe", u, "safe"), Ev("fetch", u, "")>>,
              error |-> "", lastIndex |-> c.lastIndex]
        ELSE [events |-> <<Ev("isUrlSafe", u, c.answer.reason)>>,
              error |-> c.answer.reason, lastIndex |-> c.lastIndex]
        : c \in {CheckParsedAt(Parsed(u), li)} } : TRUE

(* executeScrape(input_data) up to the await *)
ExecuteScrape(u, li) ==
    IF u = <<>>
    THEN [events |-> <<>>, error |-> "URL is required", lastIndex |-> li]
    ELSE FetchAndExtract(u, li)

\* Mutant of DemoMode: any value of the variables switches the mode on
DemoMode_AnyValue(e) == e.TESTNET_MODE # "undefined" \/ e.DEMO_MODE # "undefined"

\* process.env.TESTNET_MODE === 'true' || process.env.DEMO_MODE === 'true'
DemoMode(e) == e.TESTNET_MODE = "true" \/ e.DEMO_MODE = "true"

(* app.post('/start_job'), up to its first await or its response.  The job *)
(* is created pending and, in demo mode, set running; an executor that     *)
(* throws before its first outbound call (no query, no task, no URL, a URL *)
(* refused) and executeHitl, which calls nothing, end the job in the same  *)
(* step.                                                                   *)
StartJob(r) ==
    LET h == <<Ev("handler", <<>>, r.kind)>>
        id == Len(jobs) + 1
        created == Append(jobs, NewJob(r.service))
        running == UpdateJob(created, id, "running", "null", "null")
        made == h \o <<JobEv("createJob", id, r.service)>>
        started == made \o <<JobEv("job.status", id, "running")>>
        failed(events, li, error) ==
            Did(started \o events
                     \o <<JobEv("updateJob", id, error), JobEv("respond", id, "failed")>>,
                li, UpdateJob(running, id, "failed", "null", error), <<>>)
    IN  IF r.service \in {"no input_data", "other"}
        THEN Did(h \o <<Ev("respond", <<>>, "Bad Request")>>, lastIndex, jobs, <<>>)
        ELSE IF ~DemoMode(env)
        THEN Did(made \o <<JobEv("respond", id, "pending")>>, lastIndex, created, <<>>)
        ELSE CASE r.service = "research" ->
                    IF r.query = "" THEN failed(<<>>, lastIndex, "Query is required")
                    ELSE Did(started \o <<Ev("search", <<>>, r.query)>>, lastIndex, running,
                             <<Call("search", r.kind, <<>>, id, <<>>)>>)
               [] r.service = "scrape" ->
                    CHOOSE d \in
                      { IF x.error = ""
                        THEN Did(started \o x.events, x.lastIndex, running,
                                 <<Call("fetch", r.kind, r.url, id, <<>>)>>)
                        ELSE failed(x.events, x.lastIndex, x.error)
                        : x \in {ExecuteScrape(r.url, lastIndex)} } : TRUE
               [] r.service = "hitl" ->
                    IF r.query = "" THEN failed(<<>>, lastIndex, "Task description is required")
                    ELSE Did(started \o <<JobEv("updateJob", id, "null"),
                                          JobEv("respond", id, "completed")>>,
                             lastIndex, UpdateJob(running, id, "completed", "set", "null"), <<>>)

(* app.get('/status') *)
GetStatus(r) ==
    LET h == <<Ev("handler", <<>>, r.kind)>>
    IN  IF r.job_id = 0
        THEN Did(h \o <<Ev("respond", <<>>, "Bad Request")>>, lastIndex, jobs, <<>>)
        ELSE IF r.job_id \notin 1..Len(jobs)
        THEN Did(h \o <<JobEv("respond", r.job_id, "Not Found")>>, lastIndex, jobs, <<>>)
        ELSE Did(h \o <<JobEv("respond", r.job_id, jobs[r.job_id].status),
                        JobEv("result", r.job_id, jobs[r.job_id].result),
                        JobEv("error", r.job_id, jobs[r.job_id].error)>>,
                 lastIndex, jobs, <<>>)

(* The route handlers of the v1.3.0 server, up to the first await or the   *)
(* response                                                                *)
Handler(r) ==
    LET h == <<Ev("handler", <<>>, r.kind)>>
    IN  CASE r.kind = "GET /health" ->
                Did(h \o <<Ev("respond", <<>>, "healthy")>>, lastIndex, jobs, <<>>)
          [] r.kind = "POST /scrape" ->
                CHOOSE d \in
                  { IF x.error = ""
                    THEN Did(h \o x.events, x.lastIndex, jobs,
                             <<Call("fetch", r.kind, r.url, 0, <<>>)>>)
                    ELSE Did(h \o x.events \o <<Ev("respond", <<>>, x.error)>>,
                             x.lastIndex, jobs, <<>>)
                    : x \in {ExecuteScrape(r.url, lastIndex)} } : TRUE
          [] r.kind = "POST /research" ->
                IF r.query = ""
                THEN Did(h \o <<Ev("respond", <<>>, "Query is required")>>, lastIndex, jobs, <<>>)
                ELSE Did(h \o <<Ev("search", <<>>, r.query)>>, lastIndex, jobs,
                         <<Call("search", r.kind, <<>>, 0, <<>>)>>)
          [] r.kind = "POST /start_job" -> StartJob(r)
          [] r.kind = "GET /status" -> GetStatus(r)

\* Mutant of Admitted: the routes are registered before app.use(rateLimit)
Admitted_Always(ans) == TRUE

\* app.use(rateLimit) comes before every route: a route handler runs when
\* rateLimit called next()
Admitted(ans) == ans.nexts > 0

(* A request to the v1.3.0 server: cors(), express.json(), rateLimit, then *)
(* the route handler when rateLimit called next()                          *)
Mip003Request(req, r) ==
    /\ IF r.kind \in {"OPTIONS", "bad json"}
       THEN /\ ev' = <<Ev("request", <<>>, r.kind),
                       Ev("respond", <<>>, IF r.kind = "OPTIONS" THEN "204"
                                           ELSE "Internal server error")>>
            /\ UNCHANGED <<rateLimits, lastIndex, jobs, calls>>
       ELSE \E ans \in {RateLimitAnswer(rateLimits, ClientIp(req), now)} :
            \E tab \in {RateLimitTable(rateLimits, ClientIp(req), now)} :
            \E d \in {IF Admitted(ans) THEN Handler(r) ELSE Did(<<>>, lastIndex, jobs, <<>>)} :
               /\ tab[ClientIp(req)].count <= RATE_LIMIT_MAX + MaxOver
               /\ Len(d.jobs) <= MaxJobs
               /\ Len(calls) + Len(d.calls) <= MaxInFlight
               /\ rateLimits' = tab
               /\ ev' = <<Ev("request", <<>>, r.kind), Ev("rateLimit", <<>>, ans.status)>>
                        \o (IF ans.sent > 0 THEN <<Ev("respond", <<>>, "Too Many Requests")>>
                            ELSE <<>>)
                        \o d.events
               /\ lastIndex' = d.lastIndex
               /\ jobs' = d.jobs
               /\ calls' = calls \o d.calls
    /\ UNCHANGED <<limiterVars, urlVars, env, hitlJobs, urlTable>>

\* Whether fetch(u) sends a request: it rejects with a TypeError for a string
\* that is no URL and for a scheme other than http and https
Fetchable(u) == Parsed(u).ok /\ Parsed(u).protocol \in AllowedProtocols

RECURSIVE SkipUnfetchable(_)
SkipUnfetchable(us) ==
    IF us = <<>> \/ Fetchable(Head(us)) THEN us ELSE SkipUnfetchable(Tail(us))

\* The URLs in the lists of the x402 server, which passes every URL to fetch
\* as it is: one that fetch sends a request to and one that makes it throw
ListUrls ==
    { <<"h","t","t","p",":","/","/","1","6","9",".","2","5","4",".","1","6","9",".","2","5","4","/","l","a","t","e","s","t","/","m","e","t","a","-","d","a","t","a">>,
      <<"n","o","t"," ","a"," ","u","r","l">> }

\* The URL lists of the x402 POST /scrape: urls || [url], empty when neither
\* field is given
UrlLists ==
    UNION {[1..n -> ListUrls] : n \in 0..MaxUrls}

(* for (const x of list) { try { await fetchAndExtract(x) } catch {} } and  *)
(* the response after it, in a handler of the x402 server, from the URLs us *)
(* on: up to the next fetch it awaits, or the response when none is left    *)
FetchLoop(route, us) ==
    LET rest == SkipUnfetchable(us)
    IN  IF rest = <<>>
        THEN [events |-> <<Ev("respond", <<>>, "success")>>, calls |-> <<>>]
        ELSE [events |-> <<Ev("fetch", Head(rest), "")>>,
              calls |-> <<Call("fetch", route, Head(rest), 0, Tail(rest))>>]

\* The loop of POST /scrape over targetUrls
ScrapeLoop(us) == FetchLoop("x402 POST /scrape", us)

\* req.headers['x-payment']: no such header, an empty one, one with a value
Headers == {"undefined", "", "payment"}

\* Mutant of X402Next: next() is called whatever the header
X402Next_Always(header) == TRUE

\* x402Middleware calls next() unless !paymentHeader
X402Next(header) == header \notin {"undefined", ""}

\* What a handler of the x402 server did in a step
X402Did(events, js, awaited) == [events |-> events, hitlJobs |-> js, calls |-> awaited]

(* A request to a paid route of the x402 server: x402Middleware, then the  *)
(* handler, whose step is did, when the middleware called next()           *)
X402Request(route, header, did) ==
    /\ \E d \in {IF X402Next(header) THEN did
                 ELSE X402Did(<<Ev("respond", <<>>, "Payment Required")>>, hitlJobs, <<>>)} :
          /\ Len(calls) + Len(d.calls) <= MaxInFlight
          /\ Len(d.hitlJobs) <= MaxJobs
          /\ ev' = <<Ev("request", <<>>, route), Ev("x-payment", <<>>, header)>>
                   \o d.events
          /\ calls' = calls \o d.calls
          /\ hitlJobs' = d.hitlJobs
    /\ UNCHANGED <<rateLimits, limiterVars, urlVars, lastIndex, env, jobs, urlTable>>

(* app.post('/research', x402Middleware(...), ...) up to await braveSearch; *)
(* deep is depth === 'deep' && fetchContent.  BRAVE_API_KEY is taken as set *)
X402Research(header, query, deep) ==
    X402Request("x402 POST /research", header,
        LET h == <<Ev("handler", <<>>, "x402 POST /research")>>
        IN  IF query = ""
            THEN X402Did(h \o <<Ev("respond", <<>>, "Query is required")>>, hitlJobs, <<>>)
            ELSE X402Did(h \o <<Ev("search", <<>>, query)>>, hitlJobs,
                         <<[Call("search", "x402 POST /research", <<>>, 0, <<>>)
                               EXCEPT !.deep = deep]>>))

\* The job POST /hitl stores
NewHitlJob(task) ==
    [task |-> task, status |-> "pending", result |-> "null", completedAt |-> "undefined"]

(* app.post('/hitl', x402Middleware(...), ...) up to the fetch of notifyNox, *)
(* or to the response when no webhook is configured                         *)
X402Hitl(header, task) ==
    X402Request("x402 POST /hitl", header,
        LET h == <<Ev("handler", <<>>, "x402 POST /hitl")>>
            id == Len(hitlJobs) + 1
            stored == Append(hitlJobs, NewHitlJob(task))
            set == h \o <<JobEv("hitlJobs.set", id, "pending")>>
        IN  IF task = ""
            THEN X402Did(h \o <<Ev("respond", <<>>, "Task description is required")>>,
                         hitlJobs, <<>>)
            ELSE IF env.CLAWDBOT_WEBHOOK_URL = "undefined"
            THEN X402Did(set \o <<JobEv("respond", id, "pending")>>, stored, <<>>)
            ELSE X402Did(set \o <<JobEv("notify", id, env.CLAWDBOT_WEBHOOK_URL)>>, stored,
                         <<Call("notify", "x402 POST /hitl", <<>>, id, <<>>)>>))

(* app.post('/scrape', x402Middleware(...), ...) of the x402 server *)
X402Scrape(header, us) ==
    X402Request("x402 POST /scrape", header,
        LET h == <<Ev("handler", <<>>, "x402 POST /scrape")>>
        IN  IF us = <<>>
            THEN X402Did(h \o <<Ev("respond", <<>>, "URL or URLs array is required")>>,
                         hitlJobs, <<>>)
            ELSE X402Did(h \o ScrapeLoop(us).events, hitlJobs, ScrapeLoop(us).calls))

RemoveAt(s, i) == SubSeq(s, 1, i - 1) \o SubSeq(s, i + 1, Len(s))

(* The outbound call calls[i] of the v1.3.0 server settles, with a usable  *)
(* answer or not, and the handler that awaited it runs on to its response  *)
Settle(i, ok) ==
    /\ i \in 1..Len(calls)
    /\ \E c \in {calls[i]} :
       \E settled \in {<<Ev("settled", c.url, IF ok THEN "ok" ELSE "failed")>>} :
          /\ calls' = RemoveAt(calls, i)
          /\ IF c.route = "POST /start_job"
             THEN /\ jobs' = IF ok THEN UpdateJob(jobs, c.job, "completed", "set", "null")
                             ELSE UpdateJob(jobs, c.job, "failed", "null", "call failed")
                  /\ ev' = settled \o <<JobEv("updateJob", c.job, IF ok THEN "null" ELSE "call failed"),
                                        JobEv("respond", c.job, IF ok THEN "completed" ELSE "failed")>>
             ELSE /\ ev' = settled \o <<Ev("respond", <<>>, IF ok THEN "success" ELSE "call failed")>>
                  /\ UNCHANGED jobs
    /\ UNCHANGED <<rateLimits, limiterVars, urlVars, lastIndex, env, hitlJobs, urlTable>>

\* The Location headers a server may answer a fetch with: the absolute http
\* and https URLs among the URLs of the model
RedirectTargets == {u \in ScrapeUrls : Fetchable(u)}

(* fetch(urlString, {..., redirect: 'follow'}): the server of calls[i].url   *)
(* answers with a redirect to target, and fetch sends its next request      *)
(* there; nothing of the program runs in between                            *)
Redirect(i, target) ==
    /\ i \in 1..Len(calls)
    /\ calls[i].kind = "fetch"
    /\ calls[i].hops < MaxHops
    /\ calls' = [calls EXCEPT ![i] = [@ EXCEPT !.url = target, !.hops = @ + 1]]
    /\ ev' = <<Ev("redirected", calls[i].url, "3xx"), Ev("hop", target, "")>>
    /\ UNCHANGED <<rateLimits, limiterVars, urlVars, lastIndex, env, jobs, hitlJobs, urlTable>>

(* The outbound call calls[i] of the x402 server settles and its handler   *)
(* runs on: the fetch loop to its next fetch or the response; the research *)
(* handler, with the results the search gave, to the response or into the  *)
(* fetch loop over them; the hitl handler, whose notifyNox swallows a      *)
(* failure, to the response                                                *)
X402Settle(i, ok) ==
    /\ i \in 1..Len(calls)
    /\ \E c \in {calls[i]} :
       \E results \in (IF c.kind = "search" /\ ok /\ c.deep THEN UrlLists ELSE {<<>>}) :
       \E d \in {CASE c.kind = "fetch" -> FetchLoop(c.route, c.rest)
                   [] c.kind = "search" ->
                        IF ok THEN FetchLoop(c.route, results)
                        ELSE [events |-> <<Ev("respond", <<>>, "search failed")>>,
                              calls |-> <<>>]
                   [] c.kind = "notify" ->
                        [events |-> <<JobEv("respond", c.job, "pending")>>, calls |-> <<>>]} :
          /\ ev' = <<Ev("settled", c.url, IF ok THEN "ok" ELSE "failed")>> \o d.events
          /\ calls' = RemoveAt(calls, i) \o d.calls
    /\ UNCHANGED <<rateLimits, limiterVars, urlVars, lastIndex, env, jobs, hitlJobs, urlTable>>

InitSvc ==
    /\ now = 0
    /\ rateLimits = <<>>
    /\ sweepDue = SWEEP_INTERVAL
    /\ resp = Quiet("start")
    /\ win = [i \in Identities |-> NoWin]
    /\ retryAt = [i \in Identities |-> -1]
    /\ prevStart = [i \in Identities |-> -1]
    /\ passed = <<>>
    /\ urlArg = <<>>
    /\ urlCheck = NotChecked
    /\ urlPc = "idle"
    /\ lastIndex = NoLastIndex
    /\ env \in {NoEnv, [NoEnv EXCEPT !.DEMO_MODE = "true"]}
    /\ jobs = <<>>
    /\ hitlJobs = <<>>
    /\ calls = <<>>
    /\ ev = <<>>
    /\ urlTable = [u \in ScrapeUrls |-> ParseURL(u)]

NextSvc ==
    \/ \E req \in Clients, r \in Bodies : Mip003Request(req, r)
    \/ \E i \in 1..MaxInFlight, ok \in BOOLEAN : Settle(i, ok)

(* The v1.3.0 server *)
SpecSvc == InitSvc /\ [][NextSvc]_vars

InitX402 ==
    /\ now = 0
    /\ rateLimits = <<>>
    /\ sweepDue = SWEEP_INTERVAL
    /\ resp = Quiet("start")
    /\ win = [i \in Identities |-> NoWin]
    /\ retryAt = [i \in Identities |-> -1]
    /\ prevStart = [i \in Identities |-> -1]
    /\ passed = <<>>
    /\ urlArg = <<>>
    /\ urlCheck = NotChecked
    /\ urlPc = "idle"
    /\ lastIndex = NoLastIndex
    /\ env \in {NoEnv, [NoEnv EXCEPT !.CLAWDBOT_WEBHOOK_URL = "https://hook"]}
    /\ jobs = <<>>
    /\ hitlJobs = <<>>
    /\ calls = <<>>
    /\ ev = <<>>
    /\ urlTable = [u \in ScrapeUrls |-> ParseURL(u)]

NextX402 ==
    \/ \E header \in Headers, query \in {"", "q"}, deep \in BOOLEAN :
          X402Research(header, query, deep)
    \/ \E header \in Headers, task \in {"", "t"} : X402Hitl(header, task)
    \/ \E header \in Headers, us \in UrlLists : X402Scrape(header, us)
    \/ \E i \in 1..MaxInFlight, ok \in BOOLEAN : X402Settle(i, ok)

(* The paid routes of the x402 server *)
SpecX402 == InitX402 /\ [][NextX402]_vars

\* req.headers['x-admin-key']: no such header, an empty one, the key, and
\* another value
AdminKeys == {"undefined", "", "secret", "wrong"}

\* The test of POST /hitl/:jobId/complete: authKey !== process.env.ADMIN_KEY
\* is false.  An absent header and an unset variable are both undefined
Authorized(authKey, e) == authKey = e.ADMIN_KEY

\* req.body of POST /hitl/:jobId/complete: result and status, each
\* "undefined" when the body leaves it out
CompleteBodies == [result : {"undefined", "done"}, status : {"undefined", "failed"}]

\* const { result, status = 'completed' } = req.body and the three
\* assignments to the job; "iso" stands for new Date().toISOString()
CompleteJob(job, body) ==
    [job EXCEPT !.status = IF body.status = "undefined" THEN "completed" ELSE body.status,
                !.result = body.result,
                !.completedAt = "iso"]

(* app.post('/hitl/:jobId/complete', ...): the key test, the lookup of the *)
(* job, the assignments and the response.  The route has no middleware     *)
HitlComplete(authKey, id, body) ==
    /\ \E h \in {<<Ev("request", <<>>, "POST /hitl/:jobId/complete"),
                   Ev("x-admin-key", <<>>, authKey)>>} :
          IF ~Authorized(authKey, env)
          THEN /\ ev' = h \o <<JobEv("respond", id, "Unauthorized")>>
               /\ UNCHANGED hitlJobs
          ELSE IF id \notin 1..Len(hitlJobs)
          THEN /\ ev' = h \o <<JobEv("respond", id, "Job not found")>>
               /\ UNCHANGED hitlJobs
          ELSE \E job \in {CompleteJob(hitlJobs[id], body)} :
               /\ ev' = h \o <<JobEv("job.status", id, job.status),
                               JobEv("job.result", id, job.result),
                               JobEv("job.completedAt", id, job.completedAt),
                               JobEv("respond", id, "updated")>>
               /\ hitlJobs' = [hitlJobs EXCEPT ![id] = job]
    /\ UNCHANGED <<rateLimits, limiterVars, urlVars, lastIndex, env, jobs, calls, urlTable>>

(* app.get('/hitl/:jobId', ...): the stored job, or Job not found *)
GetHitl(id) ==
    /\ ev' = <<Ev("request", <<>>, "GET /hitl/:jobId")>> \o
             IF id \notin 1..Len(hitlJobs)
             THEN <<JobEv("respond", id, "Job not found")>>
             ELSE <<JobEv("respond", id, hitlJobs[id].status),
                    JobEv("result", id, hitlJobs[id].result),
                    JobEv("completedAt", id, hitlJobs[id].completedAt)>>
    /\ UNCHANGED <<rateLimits, limiterVars, urlVars, lastIndex, env, jobs, hitlJobs,
                   calls, urlTable>>

\* ADMIN_KEY not set, set to the empty string, and set to a key; no webhook
InitHitl ==
    /\ now = 0
    /\ rateLimits = <<>>
    /\ sweepDue = SWEEP_INTERVAL
    /\ resp = Quiet("start")
    /\ win = [i \in Identities |-> NoWin]
    /\ retryAt = [i \in Identities |-> -1]
    /\ prevStart = [i \in Identities |-> -1]
    /\ passed = <<>>
    /\ urlArg = <<>>
    /\ urlCheck = NotChecked
    /\ urlPc = "idle"
    /\ lastIndex = NoLastIndex
    /\ env \in {NoEnv, [NoEnv EXCEPT !.ADMIN_KEY = ""], [NoEnv EXCEPT !.ADMIN_KEY = "secret"]}
    /\ jobs = <<>>
    /\ hitlJobs = <<>>
    /\ calls = <<>>
    /\ ev = <<>>
    /\ urlTable = [u \in ScrapeUrls |-> ParseURL(u)]

NextHitl ==
    \/ \E header \in Headers, task \in {"", "t"} : X402Hitl(header, task)
    \/ \E authKey \in AdminKeys, id \in 1..(MaxJobs + 1), body \in CompleteBodies :
          HitlComplete(authKey, id, body)
    \/ \E id \in 1..(MaxJobs + 1) : GetHitl(id)

(* The HITL jobs of the x402 server: stored, completed, read *)
SpecHitl == InitHitl /\ [][NextHitl]_vars

\* The values of TESTNET_MODE and DEMO_MODE: unset, either one 'true', and
\* both set to something else
Envs ==
    { NoEnv,
      [NoEnv EXCEPT !.TESTNET_MODE = "true"],
      [NoEnv EXCEPT !.DEMO_MODE = "true"],
      [NoEnv EXCEPT !.TESTNET_MODE = "1", !.DEMO_MODE = "TRUE"] }

InitJobs ==
    /\ now = 0
    /\ rateLimits = <<>>
    /\ sweepDue = SWEEP_INTERVAL
    /\ resp = Quiet("start")
    /\ win = [i \in Identities |-> NoWin]
    /\ retryAt = [i \in Identities |-> -1]
    /\ prevStart = [i \in Identities |-> -1]
    /\ passed = <<>>
    /\ urlArg = <<>>
    /\ urlCheck = NotChecked
    /\ urlPc = "idle"
    /\ lastIndex = NoLastIndex
    /\ env \in Envs
    /\ jobs = <<>>
    /\ hitlJobs = <<>>
    /\ calls = <<>>
    /\ ev = <<>>
    /\ urlTable = [u \in ScrapeUrls |-> ParseURL(u)]

\* The requests about jobs, and a direct research request beside them
JobBodies ==
    {r \in Bodies : r.kind = "POST /start_job"}
    \cup {StatusBody(id) : id \in 0..(MaxJobs + 1)}
    \cup {Body("POST /research", "", <<>>, "q")}

NextJobs ==
    \/ \E req \in Clients, r \in JobBodies : Mip003Request(req, r)
    \/ \E i \in 1..MaxInFlight, ok \in BOOLEAN : Settle(i, ok)

(* The job store of the v1.3.0 server *)
SpecJobs == InitJobs /\ [][NextJobs]_vars

\* The requests that scrape
ScrapeBodies == {r \in Bodies : r.kind = "POST /scrape" \/ r.service = "scrape"}

NextFetch ==
    \/ \E req \in Clients, r \in ScrapeBodies : Mip003Request(req, r)
    \/ \E i \in 1..MaxInFlight, target \in RedirectTargets : Redirect(i, target)
    \/ \E i \in 1..MaxInFlight, ok \in BOOLEAN : Settle(i, ok)

(* The scrapes of the v1.3.0 server with the answers of the servers fetched *)
SpecFetch == InitSvc /\ [][NextFetch]_vars

---------------------------------------------------------------------------
(* The request pipelines: the claims *)

\* The places of ev
Places == 1..Len(ev)

\* Every fetch of the step comes after an isUrlSafe of the step that
\* answered safe for the URL fetched
FetchesChecked ==
    \A i \in Places : ev[i].e = "fetch" =>
        \E j \in 1..(i - 1) : ev[j] = Ev("isUrlSafe", ev[i].url, "safe")

\* A URL isUrlSafe refused is not fetched, and the reason goes to the caller:
\* into the error of the response, or into the error of the job
RefusedReported ==
    \A j \in Places : (ev[j].e = "isUrlSafe" /\ ev[j].arg # "safe") =>
        /\ \A i \in Places : ev[i].e = "fetch" => ev[i].url # ev[j].url
        /\ \E k \in (j + 1)..Len(ev) :
              ev[k].e \in {"respond", "updateJob"} /\ ev[k].arg = ev[j].arg

\* C13 (as claimed): at every scrape entry point a URL of the request body
\* is fetched only after isUrlSafe answered safe for it, and a refused URL
\* is not fetched and its reason is reported.
C13_FetchOnlyAfterSafe == FetchesChecked /\ RefusedReported

\* What runs for a request only when the limiter let it through
Guarded == {"handler", "createJob", "job.status", "updateJob", "isUrlSafe", "search", "fetch"}

\* C14: in the v1.3.0 server the route handler of a request, and with it
\* every job creation, search call and fetch, runs only after rateLimit
\* called next() for the request; a request rateLimit rejects is answered
\* 'Too Many Requests' and nothing else is done for it.
C14_LimiterFirst ==
    (ev # <<>> /\ ev[1].e = "request") =>
        /\ \A i \in Places : ev[i].e \in Guarded =>
              \E j \in 1..(i - 1) : ev[j] = Ev("rateLimit", <<>>, "next")
        /\ (\E j \in Places : ev[j] = Ev("rateLimit", <<>>, "429")) =>
              ev = <<ev[1], Ev("rateLimit", <<>>, "429"),
                     Ev("respond", <<>>, "Too Many Requests")>>

\* In demo mode a POST /start_job was rejected by the limiter while a call
\* of an earlier request was awaited
C14_Witness ==
    /\ DemoMode(env)
    /\ calls # <<>>
    /\ ev = <<Ev("request", <<>>, "POST /start_job"), Ev("rateLimit", <<>>, "429"),
              Ev("respond", <<>>, "Too Many Requests")>>

\* isUrlSafe(u) on its own, the patterns as constructed
PureAnswer(u) == CheckParsed(Parsed(u))

AnswerText(a) == IF a.safe THEN "safe" ELSE a.reason

\* A step in which isUrlSafe ran
ValidatorStep == \E i \in 1..Len(ev') : ev'[i].e = "isUrlSafe"

\* C20: whatever requests came before and whatever calls are awaited, every
\* call of isUrlSafe answers what isUrlSafe answers for that string on its
\* own, and leaves the patterns (their lastIndex) as they were; in a step in
\* which it runs, the rate-limit table changes as rateLimit alone changes it
\* and the job store as createJob and updateJob alone change it (not at all
\* for POST /scrape).
C20_Pure ==
    [][ValidatorStep =>
          /\ \A i \in 1..Len(ev') : ev'[i].e = "isUrlSafe" =>
                ev'[i].arg = AnswerText(PureAnswer(ev'[i].url))
          /\ lastIndex' = lastIndex
          /\ \E req \in Clients : rateLimits' = RateLimitTable(rateLimits, ClientIp(req), now)
          /\ IF ev'[1].arg = "POST /scrape" THEN jobs' = jobs
             ELSE /\ Len(jobs') = Len(jobs) + 1
                  /\ SubSeq(jobs', 1, Len(jobs)) = jobs]_vars

\* After several requests, with a fetch awaited, http://10.0.0.1/ was
\* refused by a pattern once more
C20_Witness ==
    /\ calls # <<>>
    /\ rateLimits # <<>>
    /\ \E ip \in DOMAIN rateLimits : rateLimits[ip].count > 3
    /\ lastIndex = NoLastIndex
    /\ \E i \in Places :
          ev[i] = Ev("isUrlSafe", <<"h","t","t","p",":","/","/","1","0",".","0",".","0",".","1","/">>, "Internal IP not allowed")

\* C22 (as claimed): every request the service sends while serving a scrape,
\* the first request of a fetch and every request to a redirect target the
\* fetch follows, goes to a URL isUrlSafe classifies as safe.
C22_OutboundSafe ==
    \A i \in Places : ev[i].e \in {"fetch", "hop"} => PureAnswer(ev[i].url).safe

\* The jobs of the store
JobIds == 1..Len(jobs)

\* C27 (as claimed): a job started through POST /start_job with service
\* 'hitl' has status 'pending' after start_job returned, in every mode.
C27_HitlStaysPending ==
    \A id \in JobIds : jobs[id].service = "hitl" => jobs[id].status = "pending"

\* The moves of a job's status
Edges ==
    { <<"pending", "running">>, <<"running", "completed">>, <<"running", "failed">> }

\* The status an event gives its job: createJob, job.status = ..., updateJob
Assigns(e) == e.e \in {"createJob", "job.status", "updateJob"}

StatusOf(e) ==
    CASE e.e = "createJob" -> "pending"
      [] e.e = "job.status" -> e.arg
      [] e.e = "updateJob" -> IF e.arg = "null" THEN "completed" ELSE "failed"

\* The statuses job id went through in a step: the one it had, if it was
\* there, and the ones the step gave it, in order
Trail(id) ==
    LET given == SelectSeq(ev', LAMBDA e : Assigns(e) /\ e.job = id)
    IN  (IF id <= Len(jobs) THEN <<jobs[id].status>> ELSE <<>>)
        \o [k \in 1..Len(given) |-> StatusOf(given[k])]

\* Every step takes every job along the edges, from 'pending' for a new job,
\* and drops no job
Lifecycle ==
    /\ Len(jobs') >= Len(jobs)
    /\ \A id \in 1..Len(jobs') :
          \E t \in {Trail(id)} :
             /\ t # <<>>
             /\ id > Len(jobs) => t[1] = "pending"
             /\ \A k \in 1..(Len(t) - 1) : <<t[k], t[k + 1]>> \in Edges
             /\ t[Len(t)] = jobs'[id].status
             /\ id <= Len(jobs) => jobs'[id].service = jobs[id].service

\* A completed job has a result and no error, a failed job an error and no
\* result, a pending or running job neither
OneOfResultAndError ==
    \A id \in JobIds :
        CASE jobs[id].status = "completed" ->
                jobs[id].result # "null" /\ jobs[id].error = "null"
          [] jobs[id].status = "failed" ->
                jobs[id].result = "null" /\ jobs[id].error # "null"
          [] OTHER -> jobs[id].result = "null" /\ jobs[id].error = "null"

\* The status a response reports for a job is the job's; it is 'running'
\* only in an answer of GET /status given while start_job awaits the job's
\* call, and 'Not Found' only for an id the store does not hold
Reported ==
    \A i \in Places : (ev[i].e = "respond" /\ ev[i].job # 0) =>
        /\ ev[i].job \in JobIds => ev[i].arg = jobs[ev[i].job].status
        /\ ev[i].arg = "Not Found" => ev[i].job \notin JobIds
        /\ ev[i].arg = "running" =>
              /\ ev[1].arg = "GET /status"
              /\ \E k \in 1..Len(calls) : calls[k].job = ev[i].job

\* C28: a job's status moves only pending -> running -> completed or
\* pending -> running -> failed, completed and failed being final; a job in
\* a final status has exactly one of result and error; the status in the
\* response of start_job, and in an answer of GET /status once start_job
\* responded, is never 'running'; no job leaves the store, and GET /status
\* for a job of the store never answers Not Found.
C28_JobLifecycle ==
    /\ [](OneOfResultAndError /\ Reported)
    /\ [][Lifecycle]_vars

\* GET /status reported a scrape job as failed: its fetch, awaited by
\* start_job, had failed
C28_Witness ==
    /\ ev # <<>>
    /\ ev[1] = Ev("request", <<>>, "GET /status")
    /\ \E i \in Places : ev[i] = JobEv("respond", 1, "failed")
    /\ jobs[1] = [service |-> "scrape", status |-> "failed",
                  result |-> "null", error |-> "call failed"]

\* Neither TESTNET_MODE nor DEMO_MODE is 'true'
NeitherModeTrue == env.TESTNET_MODE # "true" /\ env.DEMO_MODE # "true"

\* C29: when neither TESTNET_MODE nor DEMO_MODE is 'true', POST /start_job
\* only records the job: its step checks no URL, searches and fetches
\* nothing and writes no status, no outbound call is ever awaited for a job,
\* and every job is pending with result and error null in every state.
C29_OnlyRecorded ==
    NeitherModeTrue =>
        /\ \A id \in JobIds :
              jobs[id] = [service |-> jobs[id].service, status |-> "pending",
                          result |-> "null", error |-> "null"]
        /\ \A k \in 1..Len(calls) : calls[k].job = 0
        /\ (ev # <<>> /\ ev[1] = Ev("request", <<>>, "POST /start_job")) =>
              \A i \in Places :
                  ev[i].e \notin {"isUrlSafe", "search", "fetch", "job.status", "updateJob"}

\* With both variables set, to values other than 'true', a scrape job was
\* recorded, and GET /status reports it pending while a direct research
\* request awaits its search
C29_Witness ==
    /\ env.TESTNET_MODE = "1"
    /\ env.DEMO_MODE = "TRUE"
    /\ jobs # <<>>
    /\ jobs[1].service = "scrape"
    /\ ev # <<>>
    /\ ev[1] = Ev("request", <<>>, "GET /status")
    /\ \E i \in Places : ev[i] = JobEv("respond", 1, "pending")
    /\ calls # <<>>

\* The paid routes of the x402 server
PaidRoutes == {"x402 POST /research", "x402 POST /hitl", "x402 POST /scrape"}

\* What a handler of a paid route does
PaidWork == {"handler", "hitlJobs.set", "search", "fetch", "notify"}

\* The step served a request to a paid route
PaidRequest(events) ==
    events # <<>> /\ events[1].e = "request" /\ events[1].arg \in PaidRoutes

\* The request of the step carried no x-payment header
NoPayment(events) == events[2] = Ev("x-payment", <<>>, "undefined")

\* C30: in the x402 server the handler of a paid route (POST /research,
\* /hitl, /scrape) runs only for a request that carries an x-payment
\* header; a request without it is answered Payment Required and nothing
\* else is done for it: no handler, no job stored, no outbound call.
C30_PaymentGate ==
    /\ [](PaidRequest(ev) =>
            /\ (\E i \in Places : ev[i].e \in PaidWork) =>
                  /\ ev[2].e = "x-payment"
                  /\ ev[2].arg # "undefined"
            /\ NoPayment(ev) =>
                  ev = <<ev[1], ev[2], Ev("respond", <<>>, "Payment Required")>>)
    /\ [][(PaidRequest(ev') /\ NoPayment(ev')) =>
            /\ hitlJobs' = hitlJobs
            /\ calls' = calls]_vars

\* A POST /hitl without the header was turned away while the job of a paid
\* request was stored and its notification awaited
C30_Witness ==
    /\ ev = <<Ev("request", <<>>, "x402 POST /hitl"),
              Ev("x-payment", <<>>, "undefined"),
              Ev("respond", <<>>, "Payment Required")>>
    /\ hitlJobs # <<>>
    /\ \E k \in 1..Len(calls) : calls[k].kind = "notify"

\* The step served a POST /hitl/:jobId/complete
CompleteRequest(events) ==
    events # <<>> /\ events[1] = Ev("request", <<>>, "POST /hitl/:jobId/complete")

\* The request of the step carried an x-admin-key header equal to the
\* ADMIN_KEY the process is configured with
KeyMatches(events, e) ==
    /\ e.ADMIN_KEY # "undefined"
    /\ events[2] = Ev("x-admin-key", <<>>, e.ADMIN_KEY)

\* C31: POST /hitl/:jobId/complete changes a stored HITL job (status,
\* result, completedAt) only for a request whose x-admin-key header equals
\* the configured ADMIN_KEY; any other request, also with ADMIN_KEY not
\* configured and the header absent, is answered Unauthorized (or Job not
\* found) and leaves every job as it was.
C31_AdminOnly ==
    [][(CompleteRequest(ev') /\ ~KeyMatches(ev', env)) =>
          /\ hitlJobs' = hitlJobs
          /\ \A i \in 1..Len(ev') : ev'[i].e \notin {"job.status", "job.result", "job.completedAt"}
          /\ ev'[Len(ev')].e = "respond"
          /\ ev'[Len(ev')].arg \in {"Unauthorized", "Job not found"}]_vars

\* The same with ADMIN_KEY configured, where the key test does what the
\* route is meant to do
C31_AdminOnlyWhenConfigured ==
    [][(env.ADMIN_KEY # "undefined" /\ CompleteRequest(ev') /\ ~KeyMatches(ev', env)) =>
          /\ hitlJobs' = hitlJobs
          /\ ev'[Len(ev')] \in {JobEv("respond", id, "Unauthorized") : id \in 1..(MaxJobs + 1)}]_vars

\* With ADMIN_KEY not set, a request without the header completed a job
C31_Witness ==
    /\ env.ADMIN_KEY = "undefined"
    /\ CompleteRequest(ev)
    /\ ev[2] = Ev("x-admin-key", <<>>, "undefined")
    /\ ev[Len(ev)] = JobEv("respond", 1, "updated")
    /\ hitlJobs # <<>>
    /\ hitlJobs[1].status = "completed"

---------------------------------------------------------------------------
(* Rate limiter: the claims *)

Min(a, b) == IF a < b THEN a ELSE b
Called == resp.op = "rateLimit"

\* C1: a call that is at most the RATE_LIMIT_MAX-th of its identity within
\* one window (the window running from its first call to RATE_LIMIT_WINDOW
\* later) is answered next(), never 429.
C1_WithinLimitAllowed ==
    (Called /\ win[resp.ip].calls <= RATE_LIMIT_MAX) => resp.status = "next"

\* The tenth call of a window, made at the window's last instant, passed.
C1_Witness ==
    /\ Called
    /\ win[resp.ip].calls = RATE_LIMIT_MAX
    /\ now = win[resp.ip].start + RATE_LIMIT_WINDOW
    /\ resp.status = "next"

\* C2: the (RATE_LIMIT_MAX+1)-th call within one window is answered 429, and
\* every 429 carries retryAfter = the least whole number of seconds not less
\* than windowStart + RATE_LIMIT_WINDOW - now, which lies in
\* [0, RATE_LIMIT_WINDOW / 1000].
C2_RejectRetryAfter ==
    Called =>
        LET left == resp.before.windowStart + RATE_LIMIT_WINDOW - now
        IN  /\ win[resp.ip].calls = RATE_LIMIT_MAX + 1 => resp.status = "429"
            /\ resp.status = "429" =>
                  /\ resp.retryAfter * 1000 >= left
                  /\ (resp.retryAfter - 1) * 1000 < left
                  /\ resp.retryAfter >= 0
                  /\ resp.retryAfter <= RATE_LIMIT_WINDOW \div 1000

\* The eleventh call of a window, one millisecond into it, was told 60 s.
C2_Witness ==
    /\ Called
    /\ win[resp.ip].calls = RATE_LIMIT_MAX + 1
    /\ resp.status = "429"
    /\ now = resp.before.windowStart + 1
    /\ resp.retryAfter = 60

\* C3: of the calls of one identity in one window, however the requests are
\* ordered and even when all carry the same timestamp, exactly the first
\* RATE_LIMIT_MAX pass and all the others are rejected.
C3_NoOverAdmission ==
    \A i \in Identities :
        win[i].allowed = Min(win[i].calls, RATE_LIMIT_MAX)

\* RATE_LIMIT_MAX + MaxOver calls at one timestamp, while the other identity
\* was being served too: RATE_LIMIT_MAX passed.
C3_Witness ==
    \E i \in Identities :
        /\ win[i].calls = RATE_LIMIT_MAX + MaxOver
        /\ win[i].start = now
        /\ win[i].allowed = RATE_LIMIT_MAX
        /\ \E j \in Identities \ {i} : win[j].start = now /\ win[j].calls > 1

\* C4: a call made more than RATE_LIMIT_WINDOW after its identity's
\* windowStart passes and leaves the entry at count = 1, windowStart = now,
\* whatever the count was.
C4_ResetAfterWindow ==
    (Called /\ resp.before.count > 0
            /\ now - resp.before.windowStart > RATE_LIMIT_WINDOW) =>
        /\ resp.status = "next"
        /\ resp.ip \in DOMAIN rateLimits
        /\ rateLimits[resp.ip] = [count |-> 1, windowStart |-> now]

\* An entry driven above the max was reset by the first call past its window.
C4_Witness ==
    /\ Called
    /\ resp.before.count > RATE_LIMIT_MAX
    /\ now = resp.before.windowStart + RATE_LIMIT_WINDOW + 1
    /\ rateLimits[resp.ip] = [count |-> 1, windowStart |-> now]

\* C5 (as claimed): a client told retryAfter = r at time t, which calls next
\* at t + r * 1000, passes.
C5_RetryRecovers ==
    (Called /\ resp.retryDue = now) => resp.status = "next"

\* C6: a sweep leaves no entry idle for more than 2 * RATE_LIMIT_WINDOW, and a
\* call of an identity that has no entry (never seen, or swept) passes and
\* creates the entry count = 1, windowStart = now.
C6_SweptThenFirstSeen ==
    /\ resp.op = "sweep" =>
          \A i \in DOMAIN rateLimits :
              ~(now - rateLimits[i].windowStart > 2 * RATE_LIMIT_WINDOW)
    /\ (Called /\ resp.before.count = 0) =>
          /\ resp.status = "next"
          /\ resp.ip \in DOMAIN rateLimits
          /\ rateLimits[resp.ip] = [count |-> 1, windowStart |-> now]

\* An identity seen before, whose entry a sweep removed, called again.
C6_Witness ==
    /\ Called
    /\ resp.before.count = 0
    /\ resp.seen >= 0
    /\ now - resp.seen > 2 * RATE_LIMIT_WINDOW
    /\ rateLimits[resp.ip] = [count |-> 1, windowStart |-> now]

\* C7: the stored count is the number of calls, passed and rejected, made
\* since the window started; a rejected call has raised it by one.
C7_RejectedCallsCounted ==
    /\ \A i \in DOMAIN rateLimits :
          /\ rateLimits[i].windowStart = win[i].start
          /\ rateLimits[i].count = win[i].calls
    /\ (Called /\ resp.status = "429") =>
          rateLimits[resp.ip].count = resp.before.count + 1

\* A second rejection in a row: the count went from MAX + 1 to MAX + 2.
C7_Witness ==
    /\ Called
    /\ resp.status = "429"
    /\ resp.before.count = RATE_LIMIT_MAX + 1
    /\ rateLimits[resp.ip].count = RATE_LIMIT_MAX + 2

\* C8: every entry of the table has count >= 1.
C8_CountAtLeastOne ==
    \A i \in DOMAIN rateLimits : rateLimits[i].count >= 1

\* Both identities have an entry, one just created and one just reset.
C8_Witness ==
    /\ DOMAIN rateLimits = Identities
    /\ Called
    /\ resp.before.count > 1
    /\ rateLimits[resp.ip].count = 1
    /\ \E j \in Identities \ {resp.ip} : rateLimits[j].count = 1 /\ rateLimits[j].windowStart = now

\* C9: an identity's windowStart never falls below a windowStart it had
\* before, through resets, sweeps and re-creations.
C9_WindowStartMonotone ==
    \A i \in DOMAIN rateLimits : rateLimits[i].windowStart >= prevStart[i]

\* An entry re-created after a sweep removed it starts later than before.
C9_Witness ==
    /\ Called
    /\ resp.before.count = 0
    /\ resp.seen >= 0
    /\ rateLimits[resp.ip].windowStart > resp.seen

\* C16: every call of rateLimit, with or without an entry for the identity,
\* ends in exactly one of next() and one 429 response, never both and never
\* neither; when the identity has no entry the call creates one with
\* count = 1 and windowStart = now and calls next().
C16_AdmitTotal ==
    Called =>
        /\ resp.nexts + resp.sent = 1
        /\ resp.status = (IF resp.nexts = 1 THEN "next" ELSE "429")
        /\ resp.before = NoEntry =>
              /\ resp.nexts = 1
              /\ rateLimits[resp.ip] = [count |-> 1, windowStart |-> now]

\* A request without forwarded-for header and without req.ip, at a later
\* instant, found no entry for 'unknown' and was let through
C16_Witness ==
    /\ Called
    /\ resp.ip = "unknown"
    /\ resp.before = NoEntry
    /\ now > 0
    /\ resp.nexts = 1 /\ resp.sent = 0
    /\ rateLimits["unknown"] = [count |-> 1, windowStart |-> now]

\* The age of the entry of ip: now - windowStart
Age(ip) == now - rateLimits[ip].windowStart

\* C17: with the sweep run every RATE_LIMIT_WINDOW, no entry of the table is
\* ever older than 3 * RATE_LIMIT_WINDOW, and right after a sweep no entry
\* is older than 2 * RATE_LIMIT_WINDOW.
C17_StaleBound ==
    /\ \A ip \in DOMAIN rateLimits : Age(ip) <= 3 * RATE_LIMIT_WINDOW
    /\ resp.op = "sweep" =>
          \A ip \in DOMAIN rateLimits : Age(ip) <= 2 * RATE_LIMIT_WINDOW

\* An entry made at a sweep instant is exactly three windows old when the
\* third sweep after it is due, and another entry survived the sweep before
C17_Witness ==
    /\ now = sweepDue
    /\ \E ip \in DOMAIN rateLimits : Age(ip) = 3 * RATE_LIMIT_WINDOW
    /\ \E ip \in DOMAIN rateLimits : Age(ip) <= RATE_LIMIT_WINDOW

\* The call just made found an entry past its window and reset it
WasReset ==
    /\ Called
    /\ resp.before # NoEntry
    /\ WindowExpired(resp.before, now)

\* C19: the reset of a window is idempotent: done a second time at the same
\* instant, on the entry the first reset left, it gives that same entry,
\* which is what one reset of the old entry gives, and its count is 1.
C19_ResetIdempotent ==
    WasReset =>
        LET once == ResetWindow(resp.before, now)
            twice == ResetWindow(once, now)
        IN  /\ rateLimits[resp.ip] = once
            /\ twice = once
            /\ once.count = 1

\* An entry with several counted calls was reset at a sweep instant
C19_Witness ==
    /\ WasReset
    /\ resp.before.count \in 2..RATE_LIMIT_MAX
    /\ now = sweepDue
    /\ rateLimits[resp.ip].count = 1

\* The call just made found an entry exactly RATE_LIMIT_WINDOW old
AtBoundary ==
    /\ Called
    /\ resp.before # NoEntry
    /\ now - resp.before.windowStart = RATE_LIMIT_WINDOW

\* C21: the reset test is strict.  A call made when now - windowStart is
\* exactly RATE_LIMIT_WINDOW does not reset: it is counted in the old window,
\* and it is rejected with retryAfter = 0 when the raised count is above
\* RATE_LIMIT_MAX, and passes otherwise.  Only a call made more than
\* RATE_LIMIT_WINDOW after windowStart moves windowStart.
C21_StrictReset ==
    /\ AtBoundary =>
          /\ rateLimits[resp.ip] = [count |-> resp.before.count + 1,
                                    windowStart |-> resp.before.windowStart]
          /\ resp.before.count + 1 > RATE_LIMIT_MAX =>
                resp.status = "429" /\ resp.retryAfter = 0
          /\ resp.before.count + 1 <= RATE_LIMIT_MAX => resp.status = "next"
    /\ (Called /\ resp.before # NoEntry
               /\ rateLimits[resp.ip].windowStart # resp.before.windowStart) =>
          now - resp.before.windowStart > RATE_LIMIT_WINDOW

\* The eleventh call came exactly RATE_LIMIT_WINDOW after the first and was
\* rejected with retryAfter 0
C21_Witness ==
    /\ AtBoundary
    /\ resp.before.count = RATE_LIMIT_MAX
    /\ resp.status = "429"
    /\ resp.retryAfter = 0
    /\ rateLimits[resp.ip].count = RATE_LIMIT_MAX + 1

\* How long after a sweep a later call is looked at
Delays ==
    {0, 1, RATE_LIMIT_WINDOW - 1, RATE_LIMIT_WINDOW, RATE_LIMIT_WINDOW + 1,
     2 * RATE_LIMIT_WINDOW, 2 * RATE_LIMIT_WINDOW + 1}

\* A step of the sweep
SweepStep == resp'.op = "sweep"

\* C23: a sweep removes exactly the entries with
\* now - windowStart > 2 * RATE_LIMIT_WINDOW and keeps every other entry with
\* its count and windowStart; and for every identity and every later time,
\* the next call is answered the same and leaves the same entry for the
\* identity, with the table the sweep left as with the table before it.
C23_SweepExact ==
    [][SweepStep =>
          /\ DOMAIN rateLimits' =
                {ip \in DOMAIN rateLimits :
                    now - rateLimits[ip].windowStart <= 2 * RATE_LIMIT_WINDOW}
          /\ \A ip \in DOMAIN rateLimits' : rateLimits'[ip] = rateLimits[ip]
          /\ \A ip \in Identities, d \in Delays :
                /\ RateLimitAnswer(rateLimits', ip, now + d)
                      = RateLimitAnswer(rateLimits, ip, now + d)
                /\ RateLimitTable(rateLimits', ip, now + d)[ip]
                      = RateLimitTable(rateLimits, ip, now + d)[ip]]_vars

\* A sweep removed the entry of one identity and kept the entry of another,
\* which is above the max and exactly two windows old
C23_Witness ==
    /\ resp.op = "sweep"
    /\ \E ip \in Identities \ DOMAIN rateLimits : prevStart[ip] >= 0
    /\ \E ip \in DOMAIN rateLimits :
          /\ Age(ip) = 2 * RATE_LIMIT_WINDOW
          /\ rateLimits[ip].count > RATE_LIMIT_MAX

\* C24: when the sweep is due, the sweep and a call of rateLimit at that
\* same instant commute for every caller: the call is answered the same
\* before the sweep as after it, and both orders leave the same table, with
\* an entry for the caller in it.
C24_SweepAdmitCommute ==
    now >= sweepDue =>
        \A req \in Requests :
            LET ip == ClientIp(req)
                sweepFirst == RateLimitTable(SweepTable(rateLimits, now), ip, now)
                admitFirst == SweepTable(RateLimitTable(rateLimits, ip, now), now)
            IN  /\ RateLimitAnswer(SweepTable(rateLimits, now), ip, now)
                      = RateLimitAnswer(rateLimits, ip, now)
                /\ ip \in DOMAIN admitFirst
                /\ sweepFirst = admitFirst

\* With the sweep due, a call came first and reset an entry the sweep would
\* have deleted, while the other identity's entry is above the max and just
\* one window old
C24_Witness ==
    /\ now >= sweepDue
    /\ Called
    /\ resp.before # NoEntry
    /\ Stale(resp.before, now)
    /\ rateLimits[resp.ip] = [count |-> 1, windowStart |-> now]
    /\ \E ip \in DOMAIN rateLimits :
          Age(ip) = RATE_LIMIT_WINDOW /\ rateLimits[ip].count >= RATE_LIMIT_MAX

\* C25: for every identity, of its calls in any interval of length
\* RATE_LIMIT_WINDOW (here: the interval that ends now, which covers every
\* interval ending at a passed call) at most 2 * RATE_LIMIT_MAX passed; and
\* of the calls made since its entry was created or last reset at most
\* RATE_LIMIT_MAX passed.
C25_BurstBound ==
    /\ \A i \in DOMAIN passed : PassedIn(passed[i], now) <= 2 * RATE_LIMIT_MAX
    /\ \A i \in DOMAIN rateLimits :
          /\ win[i].start = rateLimits[i].windowStart
          /\ win[i].allowed <= RATE_LIMIT_MAX

\* Nine calls passed at the last instant of a window and ten more a
\* millisecond later, in the next window
C25_Witness ==
    \E i \in DOMAIN passed :
        /\ i \in DOMAIN rateLimits
        /\ now = rateLimits[i].windowStart
        /\ (now - 1) \in DOMAIN passed[i]
        /\ passed[i][now - 1] = RATE_LIMIT_MAX - 1
        /\ passed[i][now] = RATE_LIMIT_MAX
        /\ PassedIn(passed[i], now) = 2 * RATE_LIMIT_MAX - 1
        /\ win[i].allowed = RATE_LIMIT_MAX

\* The table with the entry of ip alone
OwnEntry(m, ip) == [x \in DOMAIN m \cap {ip} |-> m[x]]

\* A step of rateLimit
RateLimitStep == resp'.op = "rateLimit"

\* C26: a call of rateLimit for one identity leaves the entry of every other
\* identity as it was (there or not, its count, its windowStart), and its
\* answer and the entry it leaves for the caller are what rateLimit gives at
\* that time on a table that holds the caller's entry alone.
C26_Isolation ==
    [][RateLimitStep =>
          /\ DOMAIN rateLimits' \ {resp'.ip} = DOMAIN rateLimits \ {resp'.ip}
          /\ \A other \in DOMAIN rateLimits \ {resp'.ip} :
                rateLimits'[other] = rateLimits[other]
          /\ \E own \in {OwnEntry(rateLimits, resp'.ip)} :
                /\ <<resp'.status, resp'.retryAfter>>
                      = <<RateLimitAnswer(own, resp'.ip, now).status,
                          RateLimitAnswer(own, resp'.ip, now).retryAfter>>
                /\ rateLimits'[resp'.ip] = RateLimitTable(own, resp'.ip, now)[resp'.ip]]_vars

\* A call reset the caller's entry while the other identity's entry, from
\* another window and above the max, stayed
C26_Witness ==
    /\ WasReset
    /\ \E other \in DOMAIN rateLimits \ {resp.ip} :
          /\ rateLimits[other].count > RATE_LIMIT_MAX
          /\ rateLimits[other].windowStart # rateLimits[resp.ip].windowStart
          /\ rateLimits[other].windowStart # resp.before.windowStart

---------------------------------------------------------------------------
(* URL validator: the claims *)

\* The rules of the validator, each tested on its own on the parsed URL
RuleMatches(n, url) ==
    LET h == ToLowerCase(url.hostname)
    IN  CASE n = 1 -> ~url.ok
          [] n = 2 -> url.ok /\ url.protocol \notin AllowedProtocols
          [] n = 3 -> url.ok /\ h \in BLOCKED_HOSTS
          [] n = 4 -> url.ok /\ MatchesBlockedRange(h)
          [] n = 5 -> url.ok /\ InternalName(h)

MatchingRules(u) == UNION {{n \in 1..5 : RuleMatches(n, url)} : url \in {ParseURL(u)}}

RuleReason ==
    << "Invalid URL", "Only HTTP/HTTPS allowed", "Blocked host",
       "Internal IP not allowed", "Internal hostname not allowed" >>

\* C10: the outcome of isUrlSafe is Unsafe with the reason of the
\* lowest-numbered rule the input matches (1 unparsable, 2 scheme, 3 blocked
\* host, 4 blocked address pattern, 5 internal name), and Safe when it
\* matches none.
C10_FirstMatchingRuleDecides ==
    urlPc = "done" =>
        \A m \in {MatchingRules(urlArg)} :
            IF m = {} THEN urlCheck = Safe
            ELSE urlCheck = Unsafe(RuleReason[CHOOSE n \in m : \A k \in m : n <= k])

\* An input matching rules 2, 3 and 4 (such as ftp://127.0.0.1) was refused
\* for its scheme.
C10_Witness ==
    /\ urlPc = "done"
    /\ MatchingRules(urlArg) = {2, 3, 4}
    /\ urlCheck = Unsafe("Only HTTP/HTTPS allowed")

\* Whether the host new URL returns is a literal internal address: dotted
\* IPv4 in 127/8, 10/8, 172.16/12, 192.168/16 or 169.254/16, or bracketed
\* IPv6 ::1, fe80:... or fc00:...
InternalLiteral(url) ==
    LET h == url.hostname
    IN  /\ url.ok
        /\ \/ StartsWith(h, <<"1","2","7",".">>)
           \/ StartsWith(h, <<"1","0",".">>)
           \/ Matches172(h)
           \/ StartsWith(h, <<"1","9","2",".","1","6","8",".">>)
           \/ StartsWith(h, <<"1","6","9",".","2","5","4",".">>)
           \/ h = <<"[",":",":","1","]">>
           \/ StartsWith(h, <<"[","f","e","8","0",":">>)
           \/ StartsWith(h, <<"[","f","c","0","0",":">>)

\* C11: every input whose host is a literal loopback, RFC1918 or link-local
\* address, written as IPv4 or as bracketed IPv6, is answered Unsafe.
C11_InternalLiteralUnsafe ==
    urlPc = "done" =>
        \A url \in {ParseURL(urlArg)} : InternalLiteral(url) => ~urlCheck.safe

\* The six URLs of the listed outcomes
C12_Loopback == <<"h","t","t","p",":","/","/","1","2","7",".","0",".","0",".","1","/">>
C12_Metadata == <<"h","t","t","p",":","/","/","1","6","9",".","2","5","4",".","1","6","9",".","2","5","4","/","l","a","t","e","s","t","/","m","e","t","a","-","d","a","t","a">>
C12_Public == <<"h","t","t","p","s",":","/","/","e","x","a","m","p","l","e",".","c","o","m","/","p","a","g","e">>
C12_Ftp == <<"f","t","p",":","/","/","e","x","a","m","p","l","e",".","c","o","m","/">>
C12_Internal == <<"h","t","t","p",":","/","/","s","e","r","v","i","c","e",".","i","n","t","e","r","n","a","l","/">>
C12_NotUrl == <<"n","o","t"," ","a"," ","u","r","l">>

\* C12: isUrlSafe answers Unsafe for http://127.0.0.1/,
\* http://169.254.169.254/latest/meta-data, ftp://example.com/,
\* http://service.internal/ and 'not a url', and Safe for
\* https://example.com/page.
C12_ListedOutcomes ==
    urlPc = "done" =>
        /\ urlArg \in {C12_Loopback, C12_Metadata, C12_Ftp, C12_Internal, C12_NotUrl}
              => ~urlCheck.safe
        /\ urlArg = C12_Public => urlCheck.safe

\* http://service.internal/ was refused
C12_Witness ==
    /\ urlPc = "done"
    /\ urlArg = C12_Internal
    /\ ~urlCheck.safe

\* The answers isUrlSafe can return: { safe: true } or { safe: false, reason }
\* with one of the five reason literals of the function
Outcomes == {Safe} \cup {Unsafe(RuleReason[n]) : n \in 1..5}

\* C15: isUrlSafe always returns an answer, safe or unsafe with a reason,
\* and never throws; an input that new URL cannot parse is answered unsafe
\* with reason 'Invalid URL'.
C15_NeverThrows ==
    urlPc = "done" =>
        /\ urlCheck \in Outcomes
        /\ \A url \in {ParseURL(urlArg)} : ~url.ok => urlCheck = Unsafe("Invalid URL")

\* An input with a host that new URL refuses (a space in the host of an http
\* URL) was answered unsafe, 'Invalid URL'
C15_Witness ==
    /\ urlPc = "done"
    /\ urlArg = <<"h","t","t","p",":","/","/","e","x","a"," ","m","p","l","e",".","c","o","m","/">>
    /\ urlCheck = Unsafe("Invalid URL")

\* The rule that decides an input: the lowest-numbered rule it matches, 0 when
\* it matches none
DecidingRule(u) ==
    CHOOSE d \in {IF m = {} THEN 0 ELSE CHOOSE n \in m : \A k \in m : n <= k
                    : m \in {MatchingRules(u)}} : TRUE

\* A reason string as its characters
Chars(str) == [i \in 1..Len(str) |-> SubSeq(str, i, i)]

\* Inputs to compare an answer with: every host of the inputs behind
\* http://, and the whole strings
PeerInputs ==
    UrlWhole \cup {<<"h","t","t","p",":","/","/">> \o h \o <<"/">> : h \in UrlHosts}

\* The deciding rule and the answer of every peer input
PeerAnswers == {<<DecidingRule(u), isUrlSafe(u)>> : u \in PeerInputs}

\* C18: the reason of an unsafe answer is one of the five reason literals,
\* it is the reason every other input refused by the same rule gets, and it
\* contains neither the input string nor the host name of the input.
C18_CoarseReason ==
    (urlPc = "done" /\ ~urlCheck.safe) =>
        /\ urlCheck.reason \in {RuleReason[n] : n \in 1..5}
        /\ \A d \in {DecidingRule(urlArg)} : \A p \in PeerAnswers :
              (p[1] = d /\ ~p[2].safe) => p[2].reason = urlCheck.reason
        /\ \A url \in {ParseURL(urlArg)} : \A r \in {Chars(urlCheck.reason)} :
              /\ urlArg # <<>> => ~Includes(r, urlArg)
              /\ (url.ok /\ url.hostname # <<>>) => ~Includes(r, url.hostname)

\* http://169.254.1.1/ was refused by the address patterns with the reason
\* that http://10.0.0.1/ gets
C18_Witness ==
    /\ urlPc = "done"
    /\ urlArg = <<"h","t","t","p",":","/","/","1","6","9",".","2","5","4",".","1",".","1","/">>
    /\ urlCheck = isUrlSafe(<<"h","t","t","p",":","/","/","1","0",".","0",".","0",".","1","/">>)
    /\ urlCheck = Unsafe("Internal IP not allowed")

=============================================================================
